---- MODULE Spec2Model ----
(***************************************************************************)
(* Model of src/sock_raw.c: the data-plane transfer functions that move    *)
(* bytes between a stream socket and a buffer, on behalf of the two        *)
(* stream interfaces of one proxied session.                               *)
(*                                                                         *)
(* One session is modelled: stream interfaces 0 and 1, buffer "req"        *)
(* (produced by 0, consumed by 1) and buffer "rep" (produced by 1,         *)
(* consumed by 0).  Every handler of struct sock_ops sock_raw is one       *)
(* action; the results of the socket system calls it issues are the        *)
(* action's inputs.  A handler is an operator from a state record to the   *)
(* set of state records it can return with, one per sequence of system     *)
(* call results.  The specifications follow the request direction: bytes   *)
(* enter through the socket of interface 0 and leave through the socket    *)
(* of interface 1.                                                         *)
(***************************************************************************)
EXTENDS Integers, Sequences, FiniteSets, TLC

VARIABLES buf, si, conn, fdtab, pipes_used, splice_detects_close,
          others, now_ms, peer, rcvd, accepted, order, fifo, fits, passes, released, last

vars == <<buf, si, conn, fdtab, pipes_used, splice_detects_close,
          others, now_ms, peer, rcvd, accepted, order, fifo, fits, passes, released, last>>

(***************************************************************************)
(* Bounds of the model.                                                    *)
(***************************************************************************)
\* global.maxpipes: size of the pipe pool
MaxPipes == 1
\* number of successful socket reads (recv or splice) into a buffer
MaxRecv == 2
\* the same for a sender of bulk data
MaxStreamRecv == 6
\* global.tune.bufsize, global.tune.recv_enough, global.tune.maxrewrite
BufSize == 8192
TuneRecvEnough == 4096
TuneMaxRewrite == 4096
\* the last tick the clock reaches
MaxNow == 3

(***************************************************************************)
(* Program constants.                                                      *)
(***************************************************************************)
SPLICE_FULL_HINT == 16 * 1448
MAX_SPLICE_AT_ONCE == 1073741824
BUF_INFINITE_FORWARD == 2147483647
MIN_SPLICE_FORWARD == 4096
MIN_RET_FOR_READ_LOOP == 1460
MAX_READ_POLL_LOOPS == 4
MAX_WRITE_POLL_LOOPS == 2
TICK_ETERNITY == 0

SI == {0, 1}
Buf == {"req", "rep"}

\* si->ib and si->ob; b->prod and b->cons
ib(s) == IF s = 0 THEN "req" ELSE "rep"
ob(s) == IF s = 0 THEN "rep" ELSE "req"
prod(b) == IF b = "req" THEN 0 ELSE 1
cons(b) == IF b = "req" THEN 1 ELSE 0

\* byte counts a socket call can return besides the whole request
Amounts == {10, 4096}

\* The state the handlers work on, as one record.
Cur == [buf |-> buf, si |-> si, conn |-> conn, fdtab |-> fdtab,
        pipes_used |-> pipes_used,
        splice_detects_close |-> splice_detects_close,
        global |-> [maxpipes |-> MaxPipes, recv_enough |-> TuneRecvEnough,
                    maxrewrite |-> TuneMaxRewrite],
        now_ms |-> now_ms, peer |-> peer, rcvd |-> rcvd, accepted |-> accepted,
        order |-> order, fifo |-> fifo, fits |-> fits, passes |-> passes,
        released |-> released, last |-> last]

(***************************************************************************)
(* proto/buffers.h helpers used by this file.                              *)
(***************************************************************************)
buffer_len(B) == B.i + B.o
buffer_not_empty(B) == B.i # 0 \/ B.o # 0
buffer_empty(B) == ~buffer_not_empty(B)

\* bytes that may still be received, the reserve for rewrites excluded
bi_avail(B, G) ==
    LET rem  == B.size - B.o - B.i
        rem2 == rem - G.maxrewrite + B.o + B.to_forward
        r    == IF rem > rem2 THEN rem2 ELSE rem
    IN  IF rem = 0 THEN 0
        ELSE IF B.to_forward >= B.size THEN rem
        ELSE IF r > 0 THEN r ELSE 0

bi_full(B, G) ==
    LET rem == B.size - B.o - B.i
    IN  IF rem = 0 THEN TRUE
        ELSE IF B.to_forward >= B.size THEN FALSE
        ELSE rem - G.maxrewrite + B.o + B.to_forward <= 0

\* bi_end(): offset of the first free byte, behind the pending input
bi_end(B) == IF B.p + B.i >= B.size THEN B.p + B.i - B.size ELSE B.p + B.i

\* recv(fd, bi_end(b), max, 0) of line 296 writes neither over pending bytes
\* nor past the end of the region; an empty buffer is realigned first
RequestFits(B, max) ==
    LET B1 == IF buffer_empty(B) THEN [B EXCEPT !.p = 0] ELSE B
    IN  /\ max > 0
        /\ max <= B1.size - B1.i - B1.o
        /\ bi_end(B1) + max <= B1.size

\* b_adv(): adv bytes of input become output
b_adv(B, adv) ==
    [B EXCEPT !.i = @ - adv, !.o = @ + adv,
              !.flags = IF B.o + adv # 0 THEN @ \ {"BF_OUT_EMPTY"} ELSE @,
              !.p = (@ + adv) % B.size]

buffer_shutw_now(B) == [B EXCEPT !.flags = @ \cup {"BF_SHUTW_NOW"}]

tick_isset(t) == t # TICK_ETERNITY
tick_add_ifset(now, to) == IF to = TICK_ETERNITY THEN TICK_ETERNITY ELSE now + to

(***************************************************************************)
(* Poller registration (proto/connection.h, proto/fd.h) and the task.      *)
(* An interest is either "stop" or "want": polling for an event and        *)
(* wanting it both leave the descriptor registered for it.                 *)
(***************************************************************************)
conn_data_want_recv(m, s) == [m EXCEPT !.fdtab[s].recv = "want"]
conn_data_stop_recv(m, s) == [m EXCEPT !.fdtab[s].recv = "stop"]
conn_data_poll_recv(m, s) == [m EXCEPT !.fdtab[s].recv = "want"]
conn_data_want_send(m, s) == [m EXCEPT !.fdtab[s].send = "want"]
conn_data_stop_send(m, s) == [m EXCEPT !.fdtab[s].send = "stop"]
conn_data_poll_send(m, s) == [m EXCEPT !.fdtab[s].send = "want"]
conn_data_stop_both(m, s) == [m EXCEPT !.fdtab[s].recv = "stop", !.fdtab[s].send = "stop"]

\* fd_delete(): the descriptor leaves the poller and is closed
fd_delete(m, s) ==
    [m EXCEPT !.fdtab[s] = [owner |-> FALSE, ev |-> {}, recv |-> "stop", send |-> "stop"]]

\* si->release(si), when a callback is registered
si_release(m, s) ==
    IF m.si[s].release
    THEN [m EXCEPT !.released[s] = @ + 1, !.last.release = @ + 1]
    ELSE m

task_wakeup(m, s) ==
    IF "SI_FL_DONT_WAKE" \notin m.si[s].flags /\ m.si[s].owner
    THEN [m EXCEPT !.last.wake = TRUE]
    ELSE m

(***************************************************************************)
(* The pipe pool (proto/pipe.h).                                           *)
(***************************************************************************)
\* the capacity test off by one
pipe_pool_full_late(m) == m.pipes_used > m.global.maxpipes

\* line 110: the pool has no pipe left to give
pipe_pool_full(m) == m.pipes_used >= m.global.maxpipes

\* get_pipe() succeeded: one more pipe in use, attached empty to buffer b
get_pipe(m, b) ==
    [m EXCEPT !.pipes_used = @ + 1, !.buf[b].pipe = TRUE, !.buf[b].pipe_data = 0]

\* put_pipe(b->pipe); b->pipe = NULL.  A pipe that still holds data is
\* destroyed with its content.
put_pipe(m, b) ==
    [m EXCEPT !.pipes_used = @ - 1, !.buf[b].pipe = FALSE, !.buf[b].pipe_data = 0,
              !.order[b] = SelectSeq(@, LAMBDA c : c.loc # "pipe")]

(***************************************************************************)
(* Arrival order of the bytes a buffer and its pipe hold: a sequence of    *)
(* chunks [loc, n], oldest first.  fifo[b] records that every byte sent    *)
(* so far was the oldest one held.  rcvd[b] counts the socket reads that   *)
(* returned bytes for b, accepted[b] adds up the bytes they returned, and   *)
(* fits[b] records that every block recv() was asked for into b fitted.    *)
(***************************************************************************)
arrive(m, b, loc, n) ==
    LET q  == m.order[b]
        m1 == [m EXCEPT !.rcvd[b] = @ + 1, !.accepted[b] = @ + n,
                        !.last.spliced = IF loc = "pipe" THEN @ + n ELSE @,
                        !.last.copied = IF loc = "buf" THEN @ + n ELSE @]
    IN  IF q # <<>> /\ q[Len(q)].loc = loc
        THEN [m1 EXCEPT !.order[b][Len(q)].n = @ + n]
        ELSE [m1 EXCEPT !.order[b] = Append(q, [loc |-> loc, n |-> n])]

leave(m, b, loc, n) ==
    LET q  == m.order[b]
        m1 == [m EXCEPT !.last.taken = @ + n]
    IN  IF q # <<>> /\ q[1].loc = loc /\ q[1].n >= n
        THEN [m1 EXCEPT !.order[b] = IF q[1].n = n THEN Tail(q)
                                     ELSE [q EXCEPT ![1].n = @ - n]]
        ELSE [m1 EXCEPT !.fifo[b] = FALSE]

(***************************************************************************)
(* Results of the socket system calls: ret and, when ret is -1, errno.     *)
(***************************************************************************)
Ok(n) == [ret |-> n, errno |-> "none"]
Err(e) == [ret |-> -1, errno |-> e]
Failures == {Err("EAGAIN"), Err("ECONNRESET")}

\* What the two ends of the session do: the byte counts their sockets
\* deliver and accept besides a whole request, and the number of reads that
\* deliver bytes before the sending end falls silent.  A steady kernel
\* does not report splice() as unsupported between a socket and a pipe that
\* holds bytes it moved from that socket.
SendAmounts == {2048}
Peer(amounts, chunks, sends) ==
    [amounts |-> amounts, chunks |-> chunks, sends |-> sends, steady |-> FALSE]

\* a socket accepts all of the request, part of it, or nothing
SendRets(m, max) ==
    Failures \cup {Ok(0), Ok(max)} \cup {Ok(a) : a \in {x \in m.peer.sends : x < max}}

\* a socket delivers up to max bytes, as long as the peer still sends
RecvRets(m, b, max) ==
    Failures \cup {Ok(0)}
    \cup (IF m.rcvd[b] < m.peer.chunks
          THEN {Ok(a) : a \in {x \in m.peer.amounts \cup {max} : x > 0 /\ x <= max /\ x <= 65536}}
          ELSE {})

\* what a handler returns: the state it leaves and its return value
Ret(m, v) == [m |-> m, ret |-> v]

(***************************************************************************)
(* sock_raw_write_loop(): send the pipe's data, then the buffer's.          *)
(***************************************************************************)
\* the copy loop, lines 506-592, after send() returned r for max bytes
RECURSIVE write_copy(_, _, _, _)
\* a send that leaves BF_FULL for the buffer's last byte to clear
write_sent_full(m, s, b, write_poll, max, r) ==
    LET B0 == m.buf[b]
        B1 == [B0 EXCEPT !.flags = @ \cup {"BF_WRITE_PARTIAL"}, !.o = @ - r.ret]
        B2 == IF buffer_len(B1) = 0 THEN [B1 EXCEPT !.p = 0] ELSE B1
        B3 == IF B2.o = 0 /\ ~bi_full(B2, m.global)
              THEN [B2 EXCEPT !.flags = @ \ {"BF_FULL"}] ELSE B2
        B4 == IF B3.o = 0
              THEN [B3 EXCEPT !.flags = (@ \ {"BF_EXPECT_MORE", "BF_SEND_DONTWAIT"})
                                        \cup (IF ~B3.pipe THEN {"BF_OUT_EMPTY"} ELSE {})]
              ELSE B3
        m1 == IF "CO_FL_WAIT_L4_CONN" \in m.conn[s]
              THEN [m EXCEPT !.conn[s] = @ \ {"CO_FL_WAIT_L4_CONN"},
                             !.si[s].exp = TICK_ETERNITY]
              ELSE m
        m2 == leave([m1 EXCEPT !.buf[b] = B4, !.last.nsend = @ + 1], b, "buf", r.ret)
    IN  IF B4.o = 0 THEN {Ret(m2, 0)}
        ELSE IF r.ret < max THEN {Ret(m2, 0)}
        ELSE IF write_poll - 1 <= 0 THEN {Ret(m2, 0)}
        ELSE write_copy(m2, s, b, write_poll - 1)

write_sent(m, s, b, write_poll, max, r) ==
    LET B0 == m.buf[b]
        B1 == [B0 EXCEPT !.flags = @ \cup {"BF_WRITE_PARTIAL"}, !.o = @ - r.ret]
        B2 == IF buffer_len(B1) = 0 THEN [B1 EXCEPT !.p = 0] ELSE B1
        B3 == IF ~bi_full(B2, m.global) THEN [B2 EXCEPT !.flags = @ \ {"BF_FULL"}] ELSE B2
        B4 == IF B3.o = 0
              THEN [B3 EXCEPT !.flags = (@ \ {"BF_EXPECT_MORE", "BF_SEND_DONTWAIT"})
                                        \cup (IF ~B3.pipe THEN {"BF_OUT_EMPTY"} ELSE {})]
              ELSE B3
        m1 == IF "CO_FL_WAIT_L4_CONN" \in m.conn[s]
              THEN [m EXCEPT !.conn[s] = @ \ {"CO_FL_WAIT_L4_CONN"},
                             !.si[s].exp = TICK_ETERNITY]
              ELSE m
        m2 == leave([m1 EXCEPT !.buf[b] = B4, !.last.nsend = @ + 1], b, "buf", r.ret)
    IN  IF B4.o = 0 THEN {Ret(m2, 0)}
        ELSE IF r.ret < max THEN {Ret(m2, 0)}
        ELSE IF write_poll - 1 <= 0 THEN {Ret(m2, 0)}
        ELSE write_copy(m2, s, b, write_poll - 1)

write_copy(m, s, b, write_poll) ==
    LET B   == m.buf[b]
        max == IF B.o > B.p THEN B.o - B.p ELSE B.o
    IN  UNION { IF r.ret > 0 THEN write_sent(m, s, b, write_poll, max, r)
                ELSE IF r.ret = 0 \/ r.errno = "EAGAIN"
                     THEN {Ret(conn_data_poll_send([m EXCEPT !.last.nsend = @ + 1], s), 0)}
                ELSE {Ret([m EXCEPT !.last.nsend = @ + 1, !.last.fatal = @ \cup {s}], -1)}
              : r \in SendRets(m, max) }

\* lines 498-501, then the copy loop
write_buffer(m, s, b) ==
    IF m.buf[b].o = 0
    THEN {Ret([m EXCEPT !.buf[b].flags = @ \cup {"BF_OUT_EMPTY"}], 0)}
    ELSE write_copy(m, s, b, MAX_WRITE_POLL_LOOPS)

\* a pipe pass that goes on to the buffer whatever is left in the pipe
write_pipe_through(m, s, b, r) ==
    LET m0 == [m EXCEPT !.last.nsplice_out = @ + 1]
        m1 == leave([m0 EXCEPT !.buf[b].flags = @ \cup {"BF_WRITE_PARTIAL"},
                               !.buf[b].pipe_data = @ - r.ret], b, "pipe", r.ret)
    IN  IF r.ret <= 0 THEN write_buffer(m0, s, b)
        ELSE IF m1.buf[b].pipe_data = 0 THEN write_buffer(put_pipe(m1, b), s, b)
        ELSE write_buffer(m1, s, b)

\* lines 463-492: one splice() from the pipe to the socket returned r
write_pipe(m, s, b, r) ==
    LET m0 == [m EXCEPT !.last.nsplice_out = @ + 1]
        m1 == leave([m0 EXCEPT !.buf[b].flags = @ \cup {"BF_WRITE_PARTIAL"},
                               !.buf[b].pipe_data = @ - r.ret], b, "pipe", r.ret)
    IN  IF r.ret <= 0
        THEN IF r.ret = 0 \/ r.errno = "EAGAIN"
             THEN {Ret(conn_data_poll_send(m0, s), 0)}
             ELSE {Ret([m0 EXCEPT !.last.fatal = @ \cup {s}], -1)}
        ELSE IF m1.buf[b].pipe_data = 0 THEN write_buffer(put_pipe(m1, b), s, b)
        ELSE IF MAX_WRITE_POLL_LOOPS - 1 <= 0 THEN {Ret(m1, 0)}
        ELSE {Ret(conn_data_poll_send(m1, s), 0)}

sock_raw_write_loop(m, s, b) ==
    IF m.buf[b].pipe
    THEN UNION { write_pipe(m, s, b, r) : r \in SendRets(m, m.buf[b].pipe_data) }
    ELSE write_buffer(m, s, b)

(***************************************************************************)
(* si_shutw(): the write shutdown of the stream interface layer, called    *)
(* by sock_raw_chk_snd() once the last chunk has left.                     *)
(***************************************************************************)
si_shutw_close(m, s, from) ==
    LET m1 == IF from = "EST_CON" THEN fd_delete(m, s) ELSE m
        m2 == IF from \in {"EST_CON", "DIS"}
              THEN si_release([m1 EXCEPT !.si[s].state = "SI_ST_DIS"], s)
              ELSE m1
    IN  [m2 EXCEPT !.si[s].flags = @ \ {"SI_FL_WAIT_ROOM"},
                   !.buf[ib(s)].flags = (@ \ {"BF_SHUTR_NOW"}) \cup {"BF_SHUTR"},
                   !.buf[ib(s)].rex = TICK_ETERNITY,
                   !.si[s].exp = TICK_ETERNITY]

si_shutw(m, s) ==
    LET b  == ob(s)
        m0 == [m EXCEPT !.buf[b].flags = @ \ {"BF_SHUTW_NOW"}]
        m1 == [m0 EXCEPT !.buf[b].flags = @ \cup {"BF_SHUTW"},
                         !.buf[b].wex = TICK_ETERNITY,
                         !.si[s].flags = @ \ {"SI_FL_WAIT_DATA"}]
    IN  IF "BF_SHUTW" \in m.buf[b].flags THEN m0
        ELSE IF m1.si[s].state = "SI_ST_EST"
        THEN IF m1.si[s].flags \cap {"SI_FL_ERR", "SI_FL_NOLINGER"} # {}
             THEN si_shutw_close([m1 EXCEPT !.si[s].flags = @ \ {"SI_FL_NOLINGER"}],
                                 s, "EST_CON")
             ELSE IF m1.buf[ib(s)].flags \cap {"BF_SHUTR", "BF_DONT_READ"} = {}
             THEN conn_data_stop_send(m1, s)
             ELSE si_shutw_close(m1, s, "EST_CON")
        ELSE IF m1.si[s].state = "SI_ST_CON" THEN si_shutw_close(m1, s, "EST_CON")
        ELSE si_shutw_close(m1, s, "other")

(***************************************************************************)
(* sock_raw_chk_snd(): the producer tells the consumer s that its output   *)
(* buffer holds data.                                                      *)
(***************************************************************************)
BF_WRITE_ACTIVITY == {"BF_WRITE_NULL", "BF_WRITE_PARTIAL", "BF_WRITE_ERROR"}

\* lines 884-886
chk_snd_wakeup(m, s) == task_wakeup(m, s)

\* write activity that refreshes the read timeout whatever SI_FL_INDEP_STR
chk_snd_timeouts_coupled(m, s) ==
    LET b  == ob(s)
        F  == m.buf[b].flags
        m1 == IF F \cap {"BF_OUT_EMPTY", "BF_SHUTW", "BF_WRITE_PARTIAL"} = {"BF_WRITE_PARTIAL"}
              THEN [m EXCEPT !.buf[b].wex = tick_add_ifset(m.now_ms, m.buf[b].wto)]
              ELSE m
        m2 == IF tick_isset(m1.buf[ib(s)].rex)
              THEN [m1 EXCEPT !.buf[ib(s)].rex = tick_add_ifset(m.now_ms, m1.buf[ib(s)].rto)]
              ELSE m1
        m3 == IF F \cap BF_WRITE_ACTIVITY # {} THEN m2 ELSE m
    IN  IF F \cap {"BF_WRITE_NULL", "BF_WRITE_ERROR", "BF_SHUTW"} # {}
           \/ ("BF_OUT_EMPTY" \in F /\ m.buf[b].to_forward = 0)
           \/ m.si[s].state # "SI_ST_EST"
        THEN chk_snd_wakeup(m3, s)
        ELSE m3

\* lines 860-887
chk_snd_timeouts(m, s) ==
    LET b  == ob(s)
        F  == m.buf[b].flags
        m1 == IF F \cap {"BF_OUT_EMPTY", "BF_SHUTW", "BF_WRITE_PARTIAL"} = {"BF_WRITE_PARTIAL"}
              THEN [m EXCEPT !.buf[b].wex = tick_add_ifset(m.now_ms, m.buf[b].wto)]
              ELSE m
        m2 == IF tick_isset(m1.buf[ib(s)].rex) /\ "SI_FL_INDEP_STR" \notin m1.si[s].flags
              THEN [m1 EXCEPT !.buf[ib(s)].rex = tick_add_ifset(m.now_ms, m1.buf[ib(s)].rto)]
              ELSE m1
        m3 == IF F \cap BF_WRITE_ACTIVITY # {} THEN m2 ELSE m
    IN  IF F \cap {"BF_WRITE_NULL", "BF_WRITE_ERROR", "BF_SHUTW"} # {}
           \/ ("BF_OUT_EMPTY" \in F /\ m.buf[b].to_forward = 0)
           \/ m.si[s].state # "SI_ST_EST"
        THEN chk_snd_wakeup(m3, s)
        ELSE m3

\* lines 819-858: sock_raw_write_loop() returned ret
chk_snd_written(m, s, ret) ==
    LET b == ob(s)
        F == m.buf[b].flags
    IN  IF ret < 0
        THEN chk_snd_wakeup(
                 [conn_data_stop_both(m, s)
                     EXCEPT !.conn[s] = @ \cup {"CO_FL_ERROR"},
                            !.fdtab[s].ev = @ \ {"FD_POLL_HUP", "FD_POLL_ERR"},
                            !.si[s].flags = @ \cup {"SI_FL_ERR"}], s)
        ELSE IF "BF_OUT_EMPTY" \in F
        THEN IF F \cap {"BF_SHUTW", "BF_HIJACK", "BF_AUTO_CLOSE", "BF_SHUTW_NOW"}
                    = {"BF_AUTO_CLOSE", "BF_SHUTW_NOW"}
                /\ m.si[s].state = "SI_ST_EST"
             THEN chk_snd_wakeup(si_shutw(m, s), s)
             ELSE chk_snd_timeouts(
                      [m EXCEPT !.si[s].flags =
                                    IF F \cap {"BF_SHUTW", "BF_SHUTW_NOW", "BF_FULL", "BF_HIJACK"} = {}
                                    THEN @ \cup {"SI_FL_WAIT_DATA"} ELSE @,
                                !.buf[b].wex = TICK_ETERNITY], s)
        ELSE chk_snd_timeouts(
                 [conn_data_want_send(m, s)
                     EXCEPT !.si[s].flags = @ \ {"SI_FL_WAIT_DATA"},
                            !.buf[b].wex = IF ~tick_isset(@)
                                           THEN tick_add_ifset(m.now_ms, m.buf[b].wto)
                                           ELSE @], s)

sock_raw_chk_snd(m, s) ==
    LET O == m.buf[ob(s)]
    IN  IF m.si[s].state # "SI_ST_EST" \/ "BF_SHUTW" \in O.flags THEN {m}
        ELSE IF "BF_OUT_EMPTY" \in O.flags THEN {m}
        ELSE IF ~O.pipe /\ ("SI_FL_WAIT_DATA" \notin m.si[s].flags
                            \/ "FD_POLL_OUT" \in m.fdtab[s].ev) THEN {m}
        ELSE { chk_snd_written([r.m EXCEPT !.last.wret = r.ret], s, r.ret)
               : r \in sock_raw_write_loop(m, s, ob(s)) }

(***************************************************************************)
(* sock_raw_splice_in(): move bytes from the socket of s to the pipe of    *)
(* buffer b.                                                               *)
(***************************************************************************)
SpliceErrs(m, b) ==
    IF m.peer.steady /\ m.buf[b].pipe_data > 0 THEN {} ELSE {Err("ENOSYS")}

\* the exit without the test of lines 206-209
splice_in_exit_keep(m, b, retval) == Ret(m, retval)

\* lines 206-211: the common exit, which never leaves an empty pipe attached
splice_in_exit(m, b, retval) ==
    IF m.buf[b].pipe_data = 0 THEN Ret(put_pipe(m, b), retval) ELSE Ret(m, retval)

\* an unsupported splice that gives the pipe back and keeps the flags
splice_in_unsupported_once(m, b, s) ==
    Ret(put_pipe([m EXCEPT !.last.enosys = TRUE], b), -1)

\* lines 178-185: splice is not supported on this end
splice_in_unsupported(m, b, s) ==
    Ret(put_pipe([m EXCEPT !.buf[b].flags = @ \ {"BF_KERN_SPLICING"},
                           !.si[s].flags = @ \ {"SI_FL_CAP_SPLICE"},
                           !.last.enosys = TRUE], b), -1)

\* a failure to attach a pipe that leaves the buffer's flags alone
splice_in_nopipe_keep(m, b) == Ret([m EXCEPT !.last.nopipe = TRUE], -1)

\* lines 109-114: no pipe could be attached
splice_in_nopipe(m, b) ==
    Ret([m EXCEPT !.buf[b].flags = @ \ {"BF_KERN_SPLICING"}, !.last.nopipe = TRUE], -1)

\* lines 118-204: the loop, one splice() per turn
RECURSIVE splice_in_loop(_, _, _)
\* a loop that never finds it has read enough
splice_in_enough_never(m, b, ret) == FALSE

\* lines 199-203: enough was read for this time
splice_in_enough(m, b, ret) ==
    m.buf[b].pipe_data >= SPLICE_FULL_HINT \/ ret >= m.global.recv_enough

splice_in_moved(m, b, s, ret) ==
    LET B  == m.buf[b]
        m1 == arrive([m EXCEPT !.buf[b].to_forward =
                                   IF @ # BUF_INFINITE_FORWARD THEN @ - ret ELSE @,
                               !.buf[b].total = @ + ret,
                               !.buf[b].pipe_data = @ + ret,
                               !.buf[b].flags = (@ \cup {"BF_READ_PARTIAL"}) \ {"BF_OUT_EMPTY"},
                               !.last.moved = Append(@, ret)],
                     b, "pipe", ret)
    IN  IF splice_in_enough(m1, b, ret)
        THEN {splice_in_exit(m1, b, 0)}
        ELSE splice_in_loop(m1, b, s)

splice_in_failed(m, b, s, r) ==
    IF r.ret = 0
    THEN splice_in_exit([m EXCEPT !.splice_detects_close = TRUE,
                                  !.buf[b].flags = @ \cup {"BF_READ_NULL"}], b, 0)
    ELSE IF r.errno = "EAGAIN"
    THEN IF m.buf[b].pipe_data # 0
         THEN splice_in_exit([m EXCEPT !.si[s].flags = @ \cup {"SI_FL_WAIT_ROOM"}], b, 0)
         ELSE IF m.splice_detects_close
         THEN splice_in_exit(conn_data_poll_recv(m, s), b, 0)
         ELSE splice_in_exit(m, b, -1)
    ELSE IF r.errno = "ENOSYS" THEN splice_in_unsupported(m, b, s)
    ELSE splice_in_exit([m EXCEPT !.si[s].flags = @ \cup {"SI_FL_ERR"},
                                  !.last.fatal = @ \cup {s}], b, 0)

splice_in_loop(m, b, s) ==
    LET B   == m.buf[b]
        max == IF B.to_forward = BUF_INFINITE_FORWARD THEN MAX_SPLICE_AT_ONCE
               ELSE B.to_forward
    IN  IF max = 0 THEN {splice_in_exit(m, b, -1)}
        ELSE UNION { LET m0 == [m EXCEPT !.last.nsplice_in = @ + 1]
                     IN  IF r.ret <= 0 THEN {splice_in_failed(m0, b, s, r)}
                         ELSE splice_in_moved(m0, b, s, r.ret)
                   : r \in RecvRets(m, b, max) \cup SpliceErrs(m, b) }

\* the splice pass without the test of line 96
splice_in_accept(m, b, s) ==
    IF m.buf[b].pipe THEN splice_in_loop(m, b, s)
    ELSE splice_in_loop(get_pipe(m, b), b, s)

\* a refusal that only flags the interface
splice_in_refused_quiet(m, b, s) ==
    {Ret([m EXCEPT !.si[s].flags = @ \cup {"SI_FL_WAIT_ROOM"}], 0)}

\* lines 96-107: data are already pending in the buffer
splice_in_refused(m, b, s) ==
    LET m1 == [conn_data_stop_recv(m, s)
                  EXCEPT !.si[s].flags = @ \cup {"SI_FL_WAIT_ROOM"},
                         !.buf[b].rex = TICK_ETERNITY,
                         !.last.chk_snd = TRUE]
    IN  { Ret(m2, 0) : m2 \in sock_raw_chk_snd(m1, cons(b)) }

sock_raw_splice_in(m, b, s) ==
    LET B == m.buf[b]
    IN  IF B.to_forward = 0 THEN {Ret(m, -1)}
        ELSE IF "BF_KERN_SPLICING" \notin B.flags THEN {Ret(m, -1)}
        ELSE IF buffer_not_empty(B) THEN splice_in_refused(m, b, s)
        ELSE IF B.pipe THEN splice_in_loop(m, b, s)
        ELSE IF pipe_pool_full(m) THEN {splice_in_nopipe(m, b)}
        ELSE {splice_in_nopipe(m, b)} \cup splice_in_loop(get_pipe(m, b), b, s)

(***************************************************************************)
(* sock_raw_read0(): propagate a null read received on the connection.     *)
(***************************************************************************)
\* a close that only calls the release callback
read0_do_close_open(m, s) == si_release(m, s)

\* lines 667-674
read0_do_close(m, s) ==
    si_release([fd_delete(m, s) EXCEPT !.si[s].state = "SI_ST_DIS",
                                       !.si[s].exp = TICK_ETERNITY], s)

\* a read shutdown that leaves the poller alone
read0_half_close_keep(m, s) == m

\* lines 663-665: a normal read shutdown
read0_half_close(m, s) == conn_data_stop_recv(m, s)

\* the path sock_raw_read0() returns by
read0_path(m, path) == [m EXCEPT !.last.read0 = path]

\* the same without the test of lines 636-637
sock_raw_read0_again(m, s) ==
    LET b  == ib(s)
        m1 == [m EXCEPT !.buf[b].flags = (@ \ {"BF_SHUTR_NOW"}) \cup {"BF_SHUTR"},
                        !.buf[b].rex = TICK_ETERNITY,
                        !.si[s].flags = @ \ {"SI_FL_WAIT_ROOM"}]
    IN  IF m1.si[s].state \notin {"SI_ST_EST", "SI_ST_CON"}
        THEN read0_do_close(read0_path(m1, "close"), s)
        ELSE IF "BF_SHUTW" \in m1.buf[ob(s)].flags \/ "SI_FL_NOHALF" \in m1.si[s].flags
        THEN read0_do_close(read0_path(m1, "close"), s)
        ELSE read0_half_close(read0_path(m1, "half"), s)

sock_raw_read0(m, s) ==
    LET b  == ib(s)
        m0 == [m EXCEPT !.buf[b].flags = @ \ {"BF_SHUTR_NOW"}]
        m1 == [m0 EXCEPT !.buf[b].flags = @ \cup {"BF_SHUTR"},
                         !.buf[b].rex = TICK_ETERNITY,
                         !.si[s].flags = @ \ {"SI_FL_WAIT_ROOM"}]
    IN  IF "BF_SHUTR" \in m0.buf[b].flags THEN read0_path(m0, "already")
        ELSE IF m1.si[s].state \notin {"SI_ST_EST", "SI_ST_CON"}
        THEN read0_path(m1, "unconnected")
        ELSE IF "BF_SHUTW" \in m1.buf[ob(s)].flags
        THEN read0_do_close(read0_path(m1, "close"), s)
        ELSE IF "SI_FL_NOHALF" \in m1.si[s].flags
        THEN read0_do_close(read0_path([m1 EXCEPT !.si[s].flags = @ \ {"SI_FL_NOLINGER"}],
                                       "close"), s)
        ELSE read0_half_close(read0_path(m1, "half"), s)

(***************************************************************************)
(* sock_raw_read(): a read event on the socket of stream interface s.      *)
(***************************************************************************)
\* lines 437-444
read_out_shutdown_r(m, s) ==
    LET b  == ib(s)
        m1 == [m EXCEPT !.fdtab[s].ev = @ \ {"FD_POLL_HUP"},
                        !.buf[b].flags = @ \cup {"BF_READ_NULL"}]
        m2 == IF "BF_AUTO_CLOSE" \in m1.buf[b].flags
              THEN [m1 EXCEPT !.buf[b] = buffer_shutw_now(@)]
              ELSE m1
    IN  sock_raw_read0(m2, s)

\* an error exit that leaves the descriptor registered for writing
read_out_error_half(m, s) ==
    [conn_data_stop_recv(m, s) EXCEPT !.conn[s] = @ \cup {"CO_FL_ERROR"}]

\* lines 446-449
read_out_error(m, s) ==
    [conn_data_stop_both(m, s) EXCEPT !.conn[s] = @ \cup {"CO_FL_ERROR"}]

\* a classifier that waits for one more fill
read_streamer_full_late(B, cur_read) ==
    LET B1 == IF "BF_STREAMER_FAST" \notin B.flags /\ cur_read = buffer_len(B)
              THEN [B EXCEPT !.xfer_small = 0, !.xfer_large = (@ + 1) % 256,
                             !.flags = IF (B.xfer_large + 1) % 256 >= 4
                                       THEN @ \cup {"BF_STREAMER", "BF_STREAMER_FAST"}
                                       ELSE @]
              ELSE IF B.flags \cap {"BF_STREAMER", "BF_STREAMER_FAST"} # {}
                      /\ cur_read <= B.size \div 2
              THEN [B EXCEPT !.xfer_large = 0, !.xfer_small = (@ + 1) % 256,
                             !.flags = IF (B.xfer_small + 1) % 256 >= 2
                                       THEN @ \ {"BF_STREAMER_FAST"} ELSE @]
              ELSE [B EXCEPT !.xfer_small = 0, !.xfer_large = 0]
    IN  [B1 EXCEPT !.flags = @ \cup {"BF_FULL"}]

\* lines 321-357: the buffer is full after this receive
read_streamer_full(B, cur_read) ==
    LET B1 == IF "BF_STREAMER_FAST" \notin B.flags /\ cur_read = buffer_len(B)
              THEN [B EXCEPT !.xfer_small = 0, !.xfer_large = (@ + 1) % 256,
                             !.flags = IF (B.xfer_large + 1) % 256 >= 3
                                       THEN @ \cup {"BF_STREAMER", "BF_STREAMER_FAST"}
                                       ELSE @]
              ELSE IF B.flags \cap {"BF_STREAMER", "BF_STREAMER_FAST"} # {}
                      /\ cur_read <= B.size \div 2
              THEN [B EXCEPT !.xfer_large = 0, !.xfer_small = (@ + 1) % 256,
                             !.flags = IF (B.xfer_small + 1) % 256 >= 2
                                       THEN @ \ {"BF_STREAMER_FAST"} ELSE @]
              ELSE [B EXCEPT !.xfer_small = 0, !.xfer_large = 0]
    IN  [B1 EXCEPT !.flags = @ \cup {"BF_FULL"}]

\* a short receive that gives up the classification at the second time
read_streamer_short_early(B, cur_read) ==
    IF B.flags \cap {"BF_STREAMER", "BF_STREAMER_FAST"} # {} /\ cur_read <= B.size \div 2
    THEN [B EXCEPT !.xfer_large = 0, !.xfer_small = (@ + 1) % 256,
                   !.flags = IF (B.xfer_small + 1) % 256 >= 2
                             THEN @ \ {"BF_STREAMER", "BF_STREAMER_FAST"} ELSE @]
    ELSE B

\* lines 366-378: a short receive
read_streamer_short(B, cur_read) ==
    IF B.flags \cap {"BF_STREAMER", "BF_STREAMER_FAST"} # {} /\ cur_read <= B.size \div 2
    THEN [B EXCEPT !.xfer_large = 0, !.xfer_small = (@ + 1) % 256,
                   !.flags = IF (B.xfer_small + 1) % 256 >= 3
                             THEN @ \ {"BF_STREAMER", "BF_STREAMER_FAST"} ELSE @]
    ELSE B

\* the free space as the size of the block to receive, whatever its layout
read_max_unclamped(B, G) == bi_avail(B, G)

\* lines 270-291: the largest block that can be received at once
read_max(B, G) ==
    LET max == bi_avail(B, G)
    IN  IF max = 0 THEN 0
        ELSE IF buffer_empty(B) THEN max
        ELSE IF B.o < B.p /\ B.p + B.i < B.size /\ max > B.size - (B.p + B.i)
        THEN B.size - (B.p + B.i)
        ELSE max

\* a receive that leaves b->total alone
read_received_uncounted(m, s, ret) ==
    LET b   == ib(s)
        B0  == m.buf[b]
        B1  == [B0 EXCEPT !.i = @ + ret, !.p = IF buffer_empty(B0) THEN 0 ELSE @]
        fwd == IF B1.to_forward # BUF_INFINITE_FORWARD /\ ret > B1.to_forward
               THEN B1.to_forward ELSE ret
        B2  == IF B1.to_forward # 0 /\ B1.flags \cap {"BF_SHUTW", "BF_SHUTW_NOW"} = {}
               THEN b_adv([B1 EXCEPT !.to_forward =
                                         IF @ # BUF_INFINITE_FORWARD THEN @ - fwd ELSE @],
                          fwd)
               ELSE B1
        B3  == [B2 EXCEPT !.flags = @ \cup {"BF_READ_PARTIAL"}]
    IN  arrive([m EXCEPT !.buf[b] = B3], b, "buf", ret)

\* a receive that forwards whatever the flags of the buffer
read_received_forward(m, s, ret) ==
    LET b   == ib(s)
        B0  == m.buf[b]
        B1  == [B0 EXCEPT !.i = @ + ret, !.p = IF buffer_empty(B0) THEN 0 ELSE @]
        fwd == IF B1.to_forward # BUF_INFINITE_FORWARD /\ ret > B1.to_forward
               THEN B1.to_forward ELSE ret
        B2  == IF B1.to_forward # 0
               THEN b_adv([B1 EXCEPT !.to_forward =
                                         IF @ # BUF_INFINITE_FORWARD THEN @ - fwd ELSE @],
                          fwd)
               ELSE B1
        B3  == [B2 EXCEPT !.flags = @ \cup {"BF_READ_PARTIAL"}, !.total = @ + ret]
    IN  arrive([m EXCEPT !.buf[b] = B3], b, "buf", ret)

\* lines 298-319: ret bytes were received
read_received(m, s, ret) ==
    LET b   == ib(s)
        B0  == m.buf[b]
        B1  == [B0 EXCEPT !.i = @ + ret, !.p = IF buffer_empty(B0) THEN 0 ELSE @]
        fwd == IF B1.to_forward # BUF_INFINITE_FORWARD /\ ret > B1.to_forward
               THEN B1.to_forward ELSE ret
        B2  == IF B1.to_forward # 0 /\ B1.flags \cap {"BF_SHUTW", "BF_SHUTW_NOW"} = {}
               THEN b_adv([B1 EXCEPT !.to_forward =
                                         IF @ # BUF_INFINITE_FORWARD THEN @ - fwd ELSE @],
                          fwd)
               ELSE B1
        B3  == [B2 EXCEPT !.flags = @ \cup {"BF_READ_PARTIAL"}, !.total = @ + ret]
        m1  == IF "CO_FL_WAIT_L4_CONN" \in m.conn[s]
               THEN [m EXCEPT !.conn[s] = @ \ {"CO_FL_WAIT_L4_CONN"},
                              !.si[s].exp = TICK_ETERNITY]
               ELSE m
    IN  arrive([m1 EXCEPT !.buf[b] = B3], b, "buf", ret)

\* lines 269-433: the copy loop
RECURSIVE read_copy(_, _, _, _)
\* a loop that goes on as long as the socket delivers, whatever read_poll
read_copy_next_on(m, s, cur_read, read_poll, max, ret) ==
    LET b  == ib(s)
        m1 == read_received(m, s, ret)
        cr == cur_read + ret
        B  == m1.buf[b]
        m2 == [m1 EXCEPT !.buf[b] = read_streamer_short(B, cr)]
    IN  IF bi_full(B, m.global)
        THEN {[m1 EXCEPT !.buf[b] = read_streamer_full(B, cr),
                         !.si[s].flags = @ \cup {"SI_FL_WAIT_ROOM"},
                         !.last.filled = (cr = buffer_len(B))]}
        ELSE IF ret < max /\ "FD_POLL_HUP" \in m2.fdtab[s].ev
        THEN {read_out_shutdown_r(m2, s)}
        ELSE IF ret < max /\ "BF_STREAMER" \in m2.buf[b].flags THEN {m2}
        ELSE IF ret < max /\ ret >= m.global.recv_enough THEN {m2}
        ELSE LET m3 == IF ret < max THEN m2 ELSE m1
             IN  IF "BF_READ_DONTWAIT" \in m3.buf[b].flags
                 THEN {m3}
                 ELSE read_copy(m3, s, cr, read_poll)

read_copy_next(m, s, cur_read, read_poll, max, ret) ==
    LET b  == ib(s)
        m1 == read_received(m, s, ret)
        cr == cur_read + ret
        B  == m1.buf[b]
        m2 == [m1 EXCEPT !.buf[b] = read_streamer_short(B, cr)]
    IN  IF bi_full(B, m.global)
        THEN {[m1 EXCEPT !.buf[b] = read_streamer_full(B, cr),
                         !.si[s].flags = @ \cup {"SI_FL_WAIT_ROOM"},
                         !.last.filled = (cr = buffer_len(B))]}
        ELSE IF ret < max /\ "FD_POLL_HUP" \in m2.fdtab[s].ev
        THEN {read_out_shutdown_r(m2, s)}
        ELSE IF ret < max /\ "BF_STREAMER" \in m2.buf[b].flags THEN {m2}
        ELSE IF ret < max /\ ret >= m.global.recv_enough THEN {m2}
        ELSE LET m3 == IF ret < max THEN m2 ELSE m1
             IN  IF "BF_READ_DONTWAIT" \in m3.buf[b].flags \/ read_poll - 1 <= 0
                 THEN {m3}
                 ELSE read_copy(m3, s, cr, read_poll - 1)

read_copy(m, s, cur_read, read_poll) ==
    LET b   == ib(s)
        B   == m.buf[b]
        max == read_max(B, m.global)
    IN  IF max = 0
        THEN {[m EXCEPT !.buf[b].flags = @ \cup {"BF_FULL"},
                        !.si[s].flags = @ \cup {"SI_FL_WAIT_ROOM"}]}
        ELSE UNION { LET m0 == [m EXCEPT !.last.nrecv = @ + 1,
                                         !.fits[b] = @ /\ RequestFits(B, max),
                                         !.buf[b].p = IF buffer_empty(B) THEN 0 ELSE @]
                     IN  IF r.ret > 0
                         THEN read_copy_next(m0, s, cur_read, read_poll, max, r.ret)
                         ELSE IF r.ret = 0 THEN {read_out_shutdown_r(m0, s)}
                         ELSE IF r.errno = "EAGAIN"
                         THEN {IF cur_read < MIN_RET_FOR_READ_LOOP
                               THEN conn_data_poll_recv(m0, s) ELSE m0}
                         ELSE {read_out_error([m0 EXCEPT !.last.fatal = @ \cup {s}], s)}
                   : r \in RecvRets(m, b, max) }

\* lines 248-267: the splice attempt and what follows its return value
read_spliced(m, s, r) ==
    IF r.ret >= 0
    THEN IF "SI_FL_ERR" \in r.m.si[s].flags THEN {read_out_error(r.m, s)}
         ELSE IF "BF_READ_NULL" \in r.m.buf[ib(s)].flags THEN {read_out_shutdown_r(r.m, s)}
         ELSE {r.m}
    ELSE read_copy([r.m EXCEPT !.last.copy = TRUE], s, 0, MAX_READ_POLL_LOOPS)

sock_raw_read(m, s) ==
    LET b == ib(s)
        B == m.buf[b]
    IN  IF "CO_FL_ERROR" \in m.conn[s] THEN {read_out_error(m, s)}
        ELSE IF m.fdtab[s].ev \cap {"FD_POLL_IN", "FD_POLL_HUP"} = {"FD_POLL_HUP"}
        THEN {read_out_shutdown_r(m, s)}
        ELSE IF "BF_SHUTR" \in B.flags THEN {m}
        ELSE IF B.to_forward >= MIN_SPLICE_FORWARD /\ "BF_KERN_SPLICING" \in B.flags
        THEN IF "FD_POLL_HUP" \in m.fdtab[s].ev THEN {read_out_shutdown_r(m, s)}
             ELSE UNION { read_spliced(m, s, [r EXCEPT !.m.last.splice = r.ret])
                          : r \in sock_raw_splice_in(m, b, s) }
        ELSE read_copy([m EXCEPT !.last.copy = TRUE], s, 0, MAX_READ_POLL_LOOPS)

(***************************************************************************)
(* sock_raw_write(): a write event on the socket of stream interface s.    *)
(***************************************************************************)
\* lines 621-625
write_out_error(m, s) ==
    [conn_data_stop_both(m, s) EXCEPT !.conn[s] = @ \cup {"CO_FL_ERROR"}]

sock_raw_write(m, s) ==
    IF "CO_FL_ERROR" \in m.conn[s] THEN {write_out_error(m, s)}
    ELSE IF "BF_SHUTW" \in m.buf[ob(s)].flags THEN {m}
    ELSE { IF r.ret < 0 THEN write_out_error([r.m EXCEPT !.last.wret = r.ret], s)
           ELSE [r.m EXCEPT !.last.wret = r.ret]
           : r \in sock_raw_write_loop(m, s, ob(s)) }

(***************************************************************************)
(* sock_raw_data_finish(): update the descriptor's polling and timeouts    *)
(* from the flags of both buffers.                                         *)
(***************************************************************************)
\* lines 697-719
data_finish_read(m, s) ==
    LET b == ib(s)
        F == m.buf[b].flags
    IN  IF "BF_SHUTR" \in F THEN m
        ELSE IF F \cap {"BF_FULL", "BF_HIJACK", "BF_DONT_READ"} # {}
        THEN IF "SI_FL_WAIT_ROOM" \notin m.si[s].flags
             THEN [conn_data_stop_recv(m, s)
                      EXCEPT !.si[s].flags =
                                 IF F \cap {"BF_FULL", "BF_HIJACK", "BF_DONT_READ"} = {"BF_FULL"}
                                 THEN @ \cup {"SI_FL_WAIT_ROOM"} ELSE @,
                             !.buf[b].rex = TICK_ETERNITY]
             ELSE m
        ELSE [conn_data_want_recv(m, s)
                 EXCEPT !.si[s].flags = @ \ {"SI_FL_WAIT_ROOM"},
                        !.buf[b].rex =
                            IF F \cap {"BF_READ_NOEXP", "BF_DONT_READ"} = {} /\ ~tick_isset(@)
                            THEN tick_add_ifset(m.now_ms, m.buf[b].rto) ELSE @]

\* an update that never registers the descriptor for writing
data_finish_write_idle(m, s) ==
    LET b == ob(s)
        F == m.buf[b].flags
    IN  IF "BF_SHUTW" \in F THEN m
        ELSE IF "BF_OUT_EMPTY" \in F
        THEN IF "SI_FL_WAIT_DATA" \notin m.si[s].flags
             THEN [conn_data_stop_send(m, s)
                      EXCEPT !.si[s].flags =
                                 IF F \cap {"BF_FULL", "BF_HIJACK", "BF_SHUTW_NOW"} = {}
                                 THEN @ \cup {"SI_FL_WAIT_DATA"} ELSE @,
                             !.buf[b].wex = TICK_ETERNITY]
             ELSE m
        ELSE [m EXCEPT !.si[s].flags = @ \ {"SI_FL_WAIT_DATA"}]

\* lines 722-754
data_finish_write(m, s) ==
    LET b == ob(s)
        F == m.buf[b].flags
    IN  IF "BF_SHUTW" \in F THEN m
        ELSE IF "BF_OUT_EMPTY" \in F
        THEN IF "SI_FL_WAIT_DATA" \notin m.si[s].flags
             THEN [conn_data_stop_send(m, s)
                      EXCEPT !.si[s].flags =
                                 IF F \cap {"BF_FULL", "BF_HIJACK", "BF_SHUTW_NOW"} = {}
                                 THEN @ \cup {"SI_FL_WAIT_DATA"} ELSE @,
                             !.buf[b].wex = TICK_ETERNITY]
             ELSE m
        ELSE LET m1 == [conn_data_want_send(m, s)
                           EXCEPT !.si[s].flags = @ \ {"SI_FL_WAIT_DATA"}]
             IN  IF tick_isset(m1.buf[b].wex) THEN m1
                 ELSE [m1 EXCEPT !.buf[b].wex = tick_add_ifset(m.now_ms, m.buf[b].wto),
                                 !.buf[ib(s)].rex =
                                     IF tick_isset(@) /\ "SI_FL_INDEP_STR" \notin m1.si[s].flags
                                     THEN tick_add_ifset(m.now_ms, m.buf[ib(s)].rto)
                                     ELSE @]

sock_raw_data_finish(m, s) == data_finish_write(data_finish_read(m, s), s)

(***************************************************************************)
(* sock_raw_chk_rcv(): the consumer tells the producer s that its input    *)
(* buffer may have room again.                                             *)
(***************************************************************************)
sock_raw_chk_rcv(m, s) ==
    LET F == m.buf[ib(s)].flags
    IN  IF m.si[s].state # "SI_ST_EST" \/ "BF_SHUTR" \in F THEN m
        ELSE IF F \cap {"BF_FULL", "BF_HIJACK", "BF_DONT_READ"} # {}
        THEN [conn_data_stop_recv(m, s)
                 EXCEPT !.si[s].flags =
                            IF F \cap {"BF_FULL", "BF_HIJACK", "BF_DONT_READ"} = {"BF_FULL"}
                            THEN @ \cup {"SI_FL_WAIT_ROOM"} ELSE @]
        ELSE [conn_data_want_recv(m, s) EXCEPT !.si[s].flags = @ \ {"SI_FL_WAIT_ROOM"}]

(***************************************************************************)
(* Initial states: a session whose two sockets are set up, with empty      *)
(* buffers, and the configuration the upper layers chose for it.           *)
(***************************************************************************)
NewBuffer(to_forward, flags, rto, wto) ==
    [i |-> 0, o |-> 0, p |-> 0, size |-> BufSize, to_forward |-> to_forward,
     total |-> 0, flags |-> {"BF_OUT_EMPTY"} \cup flags,
     pipe |-> FALSE, pipe_data |-> 0,
     rex |-> TICK_ETERNITY, wex |-> TICK_ETERNITY, rto |-> rto, wto |-> wto,
     xfer_small |-> 0, xfer_large |-> 0]

NewSI(state, flags, release) ==
    [state |-> state, flags |-> flags, exp |-> TICK_ETERNITY,
     release |-> release, owner |-> TRUE]

NewFd == [owner |-> TRUE, ev |-> {}, recv |-> "want", send |-> "stop"]

NoCall(op, s) ==
    [op |-> op, s |-> s, splice |-> 2, copy |-> FALSE, chk_snd |-> FALSE,
     read0 |-> "none", release |-> 0, wake |-> FALSE, nsplice_in |-> 0,
     nsplice_out |-> 0, nrecv |-> 0, nsend |-> 0, wret |-> 2,
     spliced |-> 0, copied |-> 0, filled |-> FALSE,
     taken |-> 0, fatal |-> {}, moved |-> <<>>, enosys |-> FALSE, nopipe |-> FALSE]

\* What is kept of the last call once it has returned: the path it took,
\* when it took one of those below.
Seen(l) ==
    IF l.nopipe \/ l.enosys \/ l.chk_snd \/ l.read0 # "none" \/ l.release > 0
    THEN [op |-> l.op, s |-> l.s, splice |-> l.splice, copy |-> l.copy,
          chk_snd |-> l.chk_snd, read0 |-> l.read0, release |-> l.release,
          enosys |-> l.enosys, nopipe |-> l.nopipe]
    ELSE [op |-> "none", s |-> 0, splice |-> 2, copy |-> FALSE,
          chk_snd |-> FALSE, read0 |-> "none", release |-> 0,
          enosys |-> FALSE, nopipe |-> FALSE]

InitRest ==
    /\ conn = [s \in SI |-> {}]
    /\ fdtab = [s \in SI |-> NewFd]
    /\ pipes_used = 0
    /\ others = 0
    /\ splice_detects_close = FALSE
    /\ now_ms = 1
    /\ rcvd = [b \in Buf |-> 0]
    /\ accepted = [b \in Buf |-> 0]
    /\ order = [b \in Buf |-> <<>>]
    /\ fifo = [b \in Buf |-> TRUE]
    /\ fits = [b \in Buf |-> TRUE]
    /\ passes = [b \in Buf |-> <<>>]
    /\ released = [s \in SI |-> 0]
    /\ last = Seen(NoCall("init", 0))

\* a forwarding session: the request buffer may be spliced, with a finite
\* or an infinite amount of bytes left to forward, and no timeout is set;
\* .update has run on both interfaces, which wait for data to send
Init ==
    /\ \E f \in {MIN_SPLICE_FORWARD, BUF_INFINITE_FORWARD} :
           buf = [b \in Buf |-> IF b = "req"
                                THEN NewBuffer(f, {"BF_KERN_SPLICING", "BF_AUTO_CLOSE"},
                                               TICK_ETERNITY, TICK_ETERNITY)
                                ELSE NewBuffer(0, {}, TICK_ETERNITY, TICK_ETERNITY)]
    /\ si = [s \in SI |-> NewSI("SI_ST_EST", {"SI_FL_CAP_SPLICE", "SI_FL_WAIT_DATA"}, s = 0)]
    /\ peer = Peer(Amounts, MaxRecv, SendAmounts)
    /\ InitRest

\* a session whose interface 0 is connecting or established, with every
\* combination of the options the shutdown sequence reads, and timeouts
InitShut ==
    /\ \E f \in SUBSET {"BF_AUTO_CLOSE"} :
           buf = [b \in Buf |-> IF b = "req" THEN NewBuffer(BUF_INFINITE_FORWARD, f, 1, 1)
                                ELSE NewBuffer(0, {}, 1, 1)]
    /\ \E st \in {"SI_ST_EST", "SI_ST_CON"},
          f \in SUBSET {"SI_FL_NOHALF", "SI_FL_NOLINGER"}, rel \in BOOLEAN :
           si = [s \in SI |-> IF s = 0
                              THEN [NewSI(st, f, rel)
                                       EXCEPT !.exp = IF st = "SI_ST_CON" THEN 1
                                                      ELSE TICK_ETERNITY]
                              ELSE NewSI("SI_ST_EST", {}, FALSE)]
    /\ peer = Peer(Amounts, MaxRecv, SendAmounts)
    /\ InitRest

(***************************************************************************)
(* Actions: the entry points of struct sock_ops sock_raw, called by the    *)
(* poller and by the upper layers.                                         *)
(***************************************************************************)
\* The read events on the producer of a buffer that read from the socket,
\* the last PassesKept of them, in the specifications that keep them: whether the buffer and its pipe were empty when the call started,
\* how many socket reads returned bytes, how many bytes, and whether the
\* call left the buffer full of bytes it had all read itself.
PassesKept == 3
Pass(m, b) ==
    [empty |-> buffer_empty(buf[b]) /\ buf[b].pipe_data = 0,
     chunks |-> m.rcvd[b] - rcvd[b],
     got |-> m.accepted[b] - accepted[b],
     filled |-> m.last.filled]
Recent(q) == IF Len(q) > PassesKept THEN Tail(q) ELSE q

Leave(m) ==
    /\ buf' = m.buf
    /\ si' = m.si
    /\ conn' = m.conn
    /\ fdtab' = m.fdtab
    /\ pipes_used' = m.pipes_used
    /\ splice_detects_close' = m.splice_detects_close
    /\ rcvd' = m.rcvd
    /\ accepted' = m.accepted
    /\ order' = m.order
    /\ fifo' = m.fifo
    /\ fits' = m.fits
    /\ released' = m.released
    /\ last' = Seen(m.last)
    /\ UNCHANGED <<others, now_ms, peer>>

Become(m) == Leave(m) /\ UNCHANGED passes

Called(op, s) == [Cur EXCEPT !.last = NoCall(op, s)]

\* the events the poller can report with a read event: input is reported
\* only while it is polled for, a hang-up always
ReadEvents(s) ==
    IF fdtab[s].recv = "stop" THEN {{"FD_POLL_HUP"}}
    ELSE {{"FD_POLL_IN"}, {"FD_POLL_IN", "FD_POLL_HUP"}, {"FD_POLL_HUP"}}

Polled(s, ev) ==
    [Cur EXCEPT !.fdtab[s].ev = (@ \cap {"FD_POLL_HUP"}) \cup ev]

\* the poller reports events ev on the descriptor of s and calls .read
Read(s) ==
    /\ fdtab[s].owner
    /\ \E ev \in ReadEvents(s) :
           \E m \in sock_raw_read([Polled(s, ev) EXCEPT !.last = NoCall("read", s)], s) :
               Become(m)

\* the same, with the call added to the read events kept for its buffer
\* when it called recv() or splice() at least once
ReadPass(s) ==
    /\ fdtab[s].owner
    /\ \E ev \in ReadEvents(s) :
           \E m \in sock_raw_read([Polled(s, ev) EXCEPT !.last = NoCall("read", s)], s) :
               /\ Leave(m)
               /\ passes' = IF m.last.nrecv + m.last.nsplice_in > 0
                            THEN [passes EXCEPT ![ib(s)] = Recent(Append(@, Pass(m, ib(s))))]
                            ELSE passes

\* the poller reports that the descriptor of s is writable and calls .write
Write(s) ==
    /\ fdtab[s].owner
    /\ fdtab[s].send # "stop"
    /\ \E m \in sock_raw_write([Polled(s, {"FD_POLL_OUT"})
                                   EXCEPT !.last = NoCall("write", s)], s) :
           Become(m)

\* the session calls .update on a connected interface
DataFinish(s) ==
    /\ si[s].state = "SI_ST_EST"
    /\ Become(sock_raw_data_finish(Called("data_finish", s), s))

\* the session or the other interface calls .chk_rcv
ChkRcv(s) == Become(sock_raw_chk_rcv(Called("chk_rcv", s), s))

\* the session or the other interface calls .chk_snd
ChkSnd(s) == \E m \in sock_raw_chk_snd(Called("chk_snd", s), s) : Become(m)

\* a buffer of another session takes a pipe from the pool, as lines 109-114 do
OtherGetPipe ==
    /\ pipes_used < MaxPipes
    /\ pipes_used' = pipes_used + 1
    /\ others' = others + 1
    /\ UNCHANGED <<buf, si, conn, fdtab, splice_detects_close, now_ms, peer, rcvd,
                   accepted, order, fifo, fits, passes, released, last>>

\* and returns it once it is empty, as lines 206-209 do
OtherPutPipe ==
    /\ others > 0
    /\ pipes_used' = pipes_used - 1
    /\ others' = others - 1
    /\ UNCHANGED <<buf, si, conn, fdtab, splice_detects_close, now_ms, peer, rcvd,
                   accepted, order, fifo, fits, passes, released, last>>

\* the session shuts the write side of s
ShutW(s) ==
    /\ "BF_SHUTW" \notin buf[ob(s)].flags
    /\ Become(si_shutw(Called("shutw", s), s))

\* the session asks for the read side of s to be shut: buffer_shutr_now()
ShutrNow(s) ==
    /\ "BF_SHUTR_NOW" \notin buf[ib(s)].flags
    /\ Become([Called("shutr_now", s) EXCEPT !.buf[ib(s)].flags = @ \cup {"BF_SHUTR_NOW"}])

\* the session forwards the input pending in the buffer s writes from:
\* buffer_forward() of exactly these bytes, which is b_adv()
Forward(s) ==
    /\ buf[ob(s)].i > 0
    /\ "BF_SHUTW" \notin buf[ob(s)].flags
    /\ Become([Called("forward", s) EXCEPT !.buf[ob(s)] = b_adv(@, @.i)])

\* the session asks for the write side of s to be shut once its output has
\* left: buffer_shutw_now()
ShutwNow(s) ==
    /\ buf[ob(s)].flags \cap {"BF_SHUTW", "BF_SHUTW_NOW"} = {}
    /\ Become([Called("shutw_now", s) EXCEPT !.buf[ob(s)] = buffer_shutw_now(@)])

Next ==
    \/ Read(0)
    \/ Write(1)
    \/ ChkSnd(1)
    \/ ChkRcv(0)
    \/ DataFinish(0)
    \/ DataFinish(1)
    \/ Forward(1)
    \/ OtherGetPipe
    \/ OtherPutPipe

Spec == Init /\ [][Next]_vars

NextShut ==
    \/ Read(0)
    \/ ChkRcv(0)
    \/ DataFinish(0)
    \/ ShutW(0)
    \/ ShutrNow(0)

SpecShut == InitShut /\ [][NextShut]_vars

\* the forwarding session again, whose output the session may ask to shut
\* while input keeps arriving
NextRefuse ==
    \/ Read(0)
    \/ Write(1)
    \/ ChkSnd(1)
    \/ ChkRcv(0)
    \/ DataFinish(1)
    \/ ShutwNow(1)

SpecRefuse == Init /\ [][NextRefuse]_vars

\* a session with buffers of twice that size, everything received in the
\* request buffer being forwarded at once, never spliced; the client sends
\* blocks of 4096 bytes or as much as asked for
InitBulk ==
    /\ buf = [b \in Buf |->
                 [NewBuffer(IF b = "req" THEN BUF_INFINITE_FORWARD ELSE 0, {},
                            TICK_ETERNITY, TICK_ETERNITY)
                     EXCEPT !.size = 2 * BufSize]]
    /\ si = [s \in SI |-> NewSI("SI_ST_EST", {"SI_FL_WAIT_DATA"}, FALSE)]
    /\ InitRest

\* the server takes all of a block or nothing, and the last read events on
\* each buffer are kept
InitStream == InitBulk /\ peer = Peer({4096}, MaxStreamRecv, {})

\* the same session, whose server may take half a buffer of a larger block
InitDemote == InitBulk /\ peer = Peer({4096}, MaxStreamRecv, {BufSize})

NextDemote ==
    \/ Read(0)
    \/ Write(1)
    \/ ChkSnd(1)

SpecDemote == InitDemote /\ [][NextDemote]_vars

\* a session of the first size whose client sends a block of 1000 bytes and
\* then as much as asked for, whose server may take 400 bytes of a block,
\* and whose request buffer may carry the one-shot send options and forwards
\* the first block or everything
InitPartial ==
    /\ \E f \in SUBSET {"BF_EXPECT_MORE", "BF_SEND_DONTWAIT"},
          fwd \in {1000, BUF_INFINITE_FORWARD} :
           buf = [b \in Buf |-> IF b = "req"
                                THEN NewBuffer(fwd, f,
                                               TICK_ETERNITY, TICK_ETERNITY)
                                ELSE NewBuffer(0, {}, TICK_ETERNITY, TICK_ETERNITY)]
    /\ si = [s \in SI |-> NewSI("SI_ST_EST", {"SI_FL_WAIT_DATA"}, FALSE)]
    /\ peer = Peer({1000}, MaxRecv, {400})
    /\ InitRest

NextPartial ==
    \/ Read(0)
    \/ Write(1)
    \/ ChkSnd(1)
    \/ DataFinish(1)
    \/ ShutwNow(1)

SpecPartial == InitPartial /\ [][NextPartial]_vars

\* a forwarding session whose sockets may fail at any call, whose client
\* sends one block, whose interfaces may be told not to wake the task, and
\* whose write side the session may shut
InitError ==
    /\ buf = [b \in Buf |-> IF b = "req"
                             THEN NewBuffer(BUF_INFINITE_FORWARD,
                                            {"BF_KERN_SPLICING", "BF_AUTO_CLOSE"},
                                            TICK_ETERNITY, TICK_ETERNITY)
                             ELSE NewBuffer(0, {}, TICK_ETERNITY, TICK_ETERNITY)]
    /\ \E w \in SUBSET {"SI_FL_DONT_WAKE"} :
           si = [s \in SI |-> NewSI("SI_ST_EST",
                                    {"SI_FL_CAP_SPLICE", "SI_FL_WAIT_DATA"} \cup w, FALSE)]
    /\ peer = Peer(Amounts, 1, {})
    /\ InitRest

NextError ==
    \/ Read(0)
    \/ Write(1)
    \/ ChkSnd(1)
    \/ DataFinish(1)
    \/ ShutW(1)

SpecError == InitError /\ [][NextError]_vars

\* the forwarding session seen from its sending side: the session updates
\* the polling after its calls, and a socket that is polled for writing
\* and reported writable again and again ends up taking bytes
NextDrain ==
    \/ Read(0)
    \/ Write(1)
    \/ ChkSnd(1)
    \/ DataFinish(1)

\* output waits in the pipe or the buffer that interface s sends from
Pending(s) == buf[ob(s)].o > 0 \/ buf[ob(s)].pipe_data > 0

\* interface s is polled for writing with output to send, no error and no
\* write shutdown
Draining(s) ==
    /\ Pending(s)
    /\ "CO_FL_ERROR" \notin conn[s]
    /\ "BF_SHUTW" \notin buf[ob(s)].flags
    /\ fdtab[s].send = "want"

\* the outcomes of a read event and of a write event on s
ReadEvent(s) ==
    IF fdtab[s].owner
    THEN UNION {sock_raw_read([Polled(s, ev) EXCEPT !.last = NoCall("read", s)], s)
                : ev \in ReadEvents(s)}
    ELSE {}

WriteEvent(s) ==
    IF fdtab[s].owner /\ fdtab[s].send # "stop"
    THEN sock_raw_write([Polled(s, {"FD_POLL_OUT"}) EXCEPT !.last = NoCall("write", s)], s)
    ELSE {}

\* the calls of sock_raw_write_loop for interface s: its write event, its
\* .chk_snd, and the read event of the other interface, which calls that
\* .chk_snd at line 105
WriteLoopsOf(s) ==
    WriteEvent(s) \cup sock_raw_chk_snd(Called("chk_snd", s), s) \cup ReadEvent(1 - s)

\* a step during which the socket of s took bytes: one of these calls, in
\* which splice() from the pipe or send() returned a positive count
SentMore(s) ==
    \E m \in WriteLoopsOf(s) : m.last.taken > 0 /\ Leave(m)

\* weak fairness of the write events that send: a socket that stays polled
\* for writing with output to send takes bytes again and again.  This is
\* WF_vars(Write(s) /\ SentMore(s)) with Draining(s) for its ENABLED, which
\* Draining(s) implies.
WritesGetThrough(s) == []<>(~Draining(s)) \/ []<><<SentMore(s)>>_vars

InitDrain ==
    /\ \E f \in {MIN_SPLICE_FORWARD, BUF_INFINITE_FORWARD} :
           buf = [b \in Buf |-> IF b = "req"
                                THEN NewBuffer(f, {"BF_KERN_SPLICING", "BF_AUTO_CLOSE"},
                                               TICK_ETERNITY, TICK_ETERNITY)
                                ELSE NewBuffer(0, {}, TICK_ETERNITY, TICK_ETERNITY)]
    /\ si = [s \in SI |-> NewSI("SI_ST_EST", {"SI_FL_CAP_SPLICE", "SI_FL_WAIT_DATA"}, s = 0)]
    /\ peer = [Peer(Amounts, MaxRecv, SendAmounts) EXCEPT !.steady = TRUE]
    /\ InitRest

SpecDrain == InitDrain /\ [][NextDrain]_vars

SpecDrainFair == SpecDrain /\ WritesGetThrough(1)

NextStream ==
    \/ ReadPass(0)
    \/ Write(1)
    \/ ChkSnd(1)

SpecStream == InitStream /\ [][NextStream]_vars

\* a forwarding session with or without read and write timeouts, of two
\* ticks, and with or without independent timeouts on the sending side,
\* while the clock goes on
Timeouts == {TICK_ETERNITY, 2}

InitTimers ==
    /\ \E rto \in Timeouts, wto \in Timeouts :
           buf = [b \in Buf |-> NewBuffer(IF b = "req" THEN BUF_INFINITE_FORWARD ELSE 0,
                                         {}, rto, wto)]
    /\ \E f \in SUBSET {"SI_FL_INDEP_STR"} :
           si = [s \in SI |-> NewSI("SI_ST_EST", {"SI_FL_WAIT_DATA"} \cup f, FALSE)]
    /\ peer = Peer(Amounts, 1, SendAmounts)
    /\ InitRest

\* now_ms goes on by one tick between two calls
Tick ==
    /\ now_ms < MaxNow
    /\ now_ms' = now_ms + 1
    /\ UNCHANGED <<buf, si, conn, fdtab, pipes_used, splice_detects_close, others,
                   peer, rcvd, accepted, order, fifo, fits, passes, released, last>>

NextTimers ==
    \/ Read(0)
    \/ Write(1)
    \/ ChkSnd(1)
    \/ ChkRcv(0)
    \/ ChkRcv(1)
    \/ DataFinish(1)
    \/ Tick

SpecTimers == InitTimers /\ [][NextTimers]_vars

\* a forwarding session with buffers of twice that size, whose client
\* sends many blocks just under the recv_enough threshold, or as much as
\* asked for, so that the loops of one call can go round several times:
\* one block more than it takes to bring an empty pipe to SPLICE_FULL_HINT
LoopAmounts == {4000}
LoopChunks == MaxStreamRecv + 1
\* or a few blocks above the recv_enough threshold
LoopBlocks == {5000}
\* and whose server may take 12000 bytes of a larger block
LoopSends == {12000}

InitLoops ==
    /\ \E f \in {MIN_SPLICE_FORWARD, BUF_INFINITE_FORWARD} :
           buf = [b \in Buf |->
                     [NewBuffer(IF b = "req" THEN f ELSE 0,
                                IF b = "req" THEN {"BF_KERN_SPLICING"} ELSE {},
                                TICK_ETERNITY, TICK_ETERNITY)
                         EXCEPT !.size = 2 * BufSize]]
    /\ si = [s \in SI |-> NewSI("SI_ST_EST", {"SI_FL_CAP_SPLICE", "SI_FL_WAIT_DATA"}, FALSE)]
    /\ peer \in {Peer(LoopAmounts, LoopChunks, LoopSends),
                 Peer(LoopBlocks, MaxRecv + 1, LoopSends)}
    /\ InitRest

NextLoops ==
    \/ Read(0)
    \/ Write(1)
    \/ ChkSnd(1)

SpecLoops == InitLoops /\ [][NextLoops]_vars

(***************************************************************************)
(* Properties.                                                             *)
(***************************************************************************)
PipesAttached == Cardinality({b \in Buf : buf[b].pipe})

\* a zero-copy read of buffer b would have to take a pipe from the pool
NeedsPipe(b) ==
    /\ buf[b].to_forward # 0
    /\ "BF_KERN_SPLICING" \in buf[b].flags
    /\ ~buffer_not_empty(buf[b])
    /\ ~buf[b].pipe

\* C1: the pipes in use, by the buffers of this session and of the others,
\* never exceed global.maxpipes; and a zero-copy read that finds the pool at
\* capacity takes no pipe, returns -1 (switch to the copy path) and flags
\* no error on the interface or the connection.
C1_PoolBounded ==
    /\ pipes_used <= MaxPipes
    /\ pipes_used = others + PipesAttached
    /\ \A b \in Buf :
           NeedsPipe(b) /\ pipes_used >= MaxPipes =>
               \A r \in sock_raw_splice_in(Called("read", prod(b)), b, prod(b)) :
                   /\ r.ret = -1
                   /\ r.m.pipes_used = pipes_used
                   /\ ~r.m.buf[b].pipe
                   /\ r.m.si[prod(b)].flags \cap {"SI_FL_ERR"} = si[prod(b)].flags \cap {"SI_FL_ERR"}
                   /\ r.m.conn = conn

\* a read event was refused a pipe because the other sessions hold them all,
\* and went on with the copy path without an error
C1_Witness ==
    /\ last.op = "read" /\ last.nopipe /\ last.splice = -1 /\ last.copy
    /\ others = MaxPipes
    /\ pipes_used = MaxPipes
    /\ "CO_FL_ERROR" \notin conn[0]

\* state m leaves no empty pipe attached to buffer b, and the pool counts
\* exactly the pipes attached
NoEmptyPipe(m, b) ==
    /\ m.buf[b].pipe => m.buf[b].pipe_data > 0
    /\ ~m.buf[b].pipe => m.buf[b].pipe_data = 0
    /\ m.pipes_used = others + Cardinality({x \in Buf : m.buf[x].pipe})

\* C2: whenever sock_raw_splice_in() or sock_raw_write_loop() returns, on any
\* of their exit paths, a buffer that still has a pipe attached has more than
\* zero bytes in it: an emptied pipe went back to the pool and was detached.
C2_NoEmptyPipeAttached ==
    /\ \A b \in Buf : NoEmptyPipe(Cur, b)
    /\ \A b \in Buf :
           /\ \A r \in sock_raw_splice_in(Called("read", prod(b)), b, prod(b)) : NoEmptyPipe(r.m, b)
           /\ \A r \in sock_raw_write_loop(Called("write", cons(b)), cons(b), b) : NoEmptyPipe(r.m, b)

\* a write drained part of the pipe, which stays attached with the rest
C2_Witness ==
    /\ buf["req"].pipe
    /\ buf["req"].pipe_data > 0
    /\ buf["req"].pipe_data < buf["req"].total
    /\ "BF_WRITE_PARTIAL" \in buf["req"].flags
    /\ ~buffer_not_empty(buf["req"])

\* the buffer of direction b holds bytes and its pipe holds bytes too
BufferedAndRelayed(b) == buffer_not_empty(buf[b]) /\ buf[b].pipe_data > 0

\* every chunk held in the pipe is older than every chunk held in the buffer
PipeBeforeBuffer(q) ==
    \A i, j \in 1..Len(q) : i < j => ~(q[i].loc = "buf" /\ q[j].loc = "pipe")

\* C3 as stated: in every reachable state the buffer holds no byte (input or
\* output) while its pipe holds bytes.
C3_NeverBufferedAndRelayed == \A b \in Buf : ~BufferedAndRelayed(b)

\* C3, amended: no byte enters the pipe while the buffer holds bytes, so a
\* buffer and its pipe may both hold bytes only with the buffered ones being
\* the younger (read by the copy path after a splice pass ended with -1).
C3_RelayFedOnlyWhenBufferEmpty ==
    \A b \in Buf :
        /\ PipeBeforeBuffer(order[b])
        /\ buffer_not_empty(buf[b]) =>
               \A r \in sock_raw_splice_in(Called("read", prod(b)), b, prod(b)) :
                   /\ r.m.buf[b].pipe_data <= buf[b].pipe_data
                   /\ r.m.last.nsplice_in = 0
                   /\ PipeBeforeBuffer(r.m.order[b])

\* the copy path read bytes into the buffer behind a pipe that holds some
C3_Witness ==
    /\ BufferedAndRelayed("req")
    /\ buf["req"].i > 0
    /\ buf["req"].to_forward = 0
    /\ Len(order["req"]) = 2

\* C4: the bytes of a direction leave in the order they arrived: every byte
\* sent so far was the oldest one held, and a write call that leaves bytes
\* in the pipe (it would block, or drained a part only) has sent none of the
\* buffered bytes; no byte sits in the pipe behind an older buffered one.
C4_FifoOrder ==
    \A b \in Buf :
        /\ fifo[b]
        /\ PipeBeforeBuffer(order[b])
        /\ \A r \in sock_raw_write_loop(Called("write", cons(b)), cons(b), b) :
               /\ r.m.fifo[b]
               /\ r.m.buf[b].pipe_data > 0 =>
                      /\ r.m.buf[b].o = buf[b].o
                      /\ r.m.last.nsend = 0
               /\ r.m.last.nsend > 0 => r.m.last.nsplice_out = 0 \/ ~r.m.buf[b].pipe

\* part of the pipe has been sent, and the bytes buffered behind it wait
C4_Witness ==
    /\ order["req"] = <<[loc |-> "pipe", n |-> 2048], [loc |-> "buf", n |-> 10]>>
    /\ buf["req"].o = 10
    /\ buf["req"].pipe_data = 2048
    /\ "BF_WRITE_PARTIAL" \in buf["req"].flags
    /\ fifo["req"]

\* the stream interface s is connected or connecting
Connected(s) == si[s].state \in {"SI_ST_EST", "SI_ST_CON"}

\* C5: without SI_FL_NOHALF, on an established or connecting interface whose
\* output buffer is not shut for write, sock_raw_read0() leaves the input
\* buffer shut for read with no read expiration, SI_FL_WAIT_ROOM cleared and
\* read interest stopped, and leaves the state, the descriptor's
\* registration and the release callback alone.
C5_HalfClose ==
    \A s \in SI :
        (/\ "SI_FL_NOHALF" \notin si[s].flags
         /\ Connected(s)
         /\ "BF_SHUTW" \notin buf[ob(s)].flags) =>
            LET m == sock_raw_read0(Called("read", s), s)
            IN  /\ "BF_SHUTR" \in m.buf[ib(s)].flags
                /\ m.buf[ib(s)].rex = TICK_ETERNITY
                /\ "SI_FL_WAIT_ROOM" \notin m.si[s].flags
                /\ m.fdtab[s].recv = "stop"
                /\ m.si[s].state = si[s].state
                /\ m.fdtab[s].owner = fdtab[s].owner
                /\ m.released = released
                /\ m.last.release = 0
                /\ m.last.read0 \in {"half", "already"}
                /\ m.buf[ob(s)] = buf[ob(s)]

\* a read event ended in a half close: the input is shut, the interface
\* still connected and registered
C5_Witness ==
    /\ last.op = "read" /\ last.s = 0 /\ last.read0 = "half"
    /\ "BF_SHUTR" \in buf["req"].flags
    /\ Connected(0)
    /\ fdtab[0].owner
    /\ fdtab[0].recv = "stop"
    /\ released[0] = 0

\* C6: on an established or connecting interface whose input is not shut
\* yet, sock_raw_read0() closes both sides when SI_FL_NOHALF is set, or when
\* the output buffer is already shut for write: the descriptor leaves the
\* poller, the state becomes SI_ST_DIS, the interface expiration is cleared
\* and the release callback runs once if there is one, never a second time.
C6_FullClose ==
    \A s \in SI :
        /\ released[s] <= 1
        /\ (/\ Connected(s)
            /\ "BF_SHUTR" \notin buf[ib(s)].flags
            /\ \/ "SI_FL_NOHALF" \in si[s].flags
               \/ "BF_SHUTW" \in buf[ob(s)].flags) =>
               LET m == sock_raw_read0(Called("read", s), s)
               IN  /\ m.last.read0 = "close"
                   /\ m.si[s].state = "SI_ST_DIS"
                   /\ m.si[s].exp = TICK_ETERNITY
                   /\ ~m.fdtab[s].owner
                   /\ m.fdtab[s].recv = "stop" /\ m.fdtab[s].send = "stop"
                   /\ "BF_SHUTR" \in m.buf[ib(s)].flags
                   /\ m.released[s] = released[s] + (IF si[s].release THEN 1 ELSE 0)
                   /\ m.last.release = (IF si[s].release THEN 1 ELSE 0)

\* a read event on an interface with SI_FL_NOHALF ended in a full close,
\* and the callback has run
C6_Witness ==
    /\ last.op = "read" /\ last.s = 0 /\ last.read0 = "close" /\ last.release = 1
    /\ "SI_FL_NOHALF" \in si[0].flags
    /\ si[0].state = "SI_ST_DIS"
    /\ si[0].exp = TICK_ETERNITY
    /\ ~fdtab[0].owner
    /\ released[0] = 1

\* what a caller can observe of state m: everything but the ghost variables
Observable(m) ==
    [buf |-> m.buf, si |-> m.si, conn |-> m.conn, fdtab |-> m.fdtab,
     pipes_used |-> m.pipes_used, released |-> m.released]

\* C7 as stated: sock_raw_read0() on an input buffer already shut for read
\* changes nothing (here: while read events can still be delivered).
C7_Read0NoChange ==
    \A s \in SI :
        "BF_SHUTR" \in buf[ib(s)].flags /\ fdtab[s].owner =>
            Observable(sock_raw_read0(Called("read", s), s)) = Observable(Cur)

\* C7, amended: sock_raw_read0() on an input buffer already shut for read
\* changes nothing but BF_SHUTR_NOW, which it clears from that buffer: no
\* other flag, no timer, no registration, no second close or release; and
\* calling it twice in a row leaves the state the first call left.
C7_Read0Idempotent ==
    \A s \in SI :
        LET m1 == sock_raw_read0(Called("read", s), s)
            m2 == sock_raw_read0([m1 EXCEPT !.last = NoCall("read", s)], s)
        IN  /\ Observable(m2) = Observable(m1)
            /\ m2.last.read0 = "already" /\ m2.last.release = 0
            /\ "BF_SHUTR" \in buf[ib(s)].flags =>
                   /\ Observable(m1) =
                          [Observable(Cur) EXCEPT !.buf[ib(s)].flags = @ \ {"BF_SHUTR_NOW"}]
                   /\ m1.last.read0 = "already" /\ m1.last.release = 0

\* a hang-up was reported once more on a registered descriptor whose input
\* buffer was already shut for read
C7_Witness ==
    /\ last.op = "read" /\ last.s = 0 /\ last.read0 = "already"
    /\ "BF_SHUTR" \in buf["req"].flags
    /\ "BF_SHUTR_NOW" \notin buf["req"].flags
    /\ fdtab[0].owner

\* the states the operations of struct sock_ops can leave when called on
\* stream interface s in the current state
Outcomes(s) ==
    UNION { sock_raw_read([Polled(s, ev) EXCEPT !.last = NoCall("read", s)], s)
            : ev \in ReadEvents(s) }
    \cup sock_raw_write([Polled(s, {"FD_POLL_OUT"}) EXCEPT !.last = NoCall("write", s)], s)
    \cup sock_raw_chk_snd(Called("chk_snd", s), s)
    \cup {sock_raw_chk_rcv(Called("chk_rcv", s), s),
          sock_raw_data_finish(Called("data_finish", s), s)}

\* what sock_raw_splice_in() leaves when splice() is not supported
UnsupportedLeaves ==
    \A b \in Buf :
        \A r \in sock_raw_splice_in(Called("read", prod(b)), b, prod(b)) :
            r.m.last.enosys =>
                /\ r.ret = -1
                /\ "BF_KERN_SPLICING" \notin r.m.buf[b].flags
                /\ "SI_FL_CAP_SPLICE" \notin r.m.si[prod(b)].flags
                /\ ~r.m.buf[b].pipe /\ r.m.buf[b].pipe_data = 0
                /\ r.m.pipes_used = others + Cardinality({x \in Buf : r.m.buf[x].pipe})
                /\ ("SI_FL_ERR" \in r.m.si[prod(b)].flags) = ("SI_FL_ERR" \in si[prod(b)].flags)
                /\ r.m.conn = conn

\* splice() was found unsupported for buffer b: both flags are cleared
AfterUnsupported(b) ==
    /\ "BF_KERN_SPLICING" \notin buf[b].flags
    /\ "SI_FL_CAP_SPLICE" \notin si[prod(b)].flags

\* after that, no operation on either interface sets one of the two flags or
\* calls splice() into b
NeverSplicedAgain ==
    \A b \in Buf :
        AfterUnsupported(b) =>
            \A s \in SI :
                \A m \in Outcomes(s) :
                    /\ "BF_KERN_SPLICING" \notin m.buf[b].flags
                    /\ "SI_FL_CAP_SPLICE" \notin m.si[prod(b)].flags
                    /\ s = prod(b) => m.last.nsplice_in = 0
                    /\ m.last.op # "read" => m.last.nsplice_in = 0

\* a step keeps the splice flags that are cleared cleared
FlagsStayCleared ==
    /\ \A b \in Buf : "BF_KERN_SPLICING" \notin buf[b].flags =>
                          "BF_KERN_SPLICING" \notin buf'[b].flags
    /\ \A s \in SI : "SI_FL_CAP_SPLICE" \notin si[s].flags =>
                         "SI_FL_CAP_SPLICE" \notin si'[s].flags

\* C8: when splice() answers ENOSYS or EINVAL, sock_raw_splice_in() clears
\* BF_KERN_SPLICING and SI_FL_CAP_SPLICE, gives the pipe back, returns -1 and
\* sets no error flag; from then on no operation sets either flag again or
\* calls splice() into that buffer.
C8_UnsupportedIsPermanent ==
    /\ [](UnsupportedLeaves /\ NeverSplicedAgain)
    /\ [][FlagsStayCleared]_vars

\* a read event met ENOSYS: both flags are gone, the pipe is back in the
\* pool and the copy path has run
C8_Witness ==
    /\ last.op = "read" /\ last.s = 0 /\ last.enosys /\ last.splice = -1 /\ last.copy
    /\ "BF_KERN_SPLICING" \notin buf["req"].flags
    /\ "SI_FL_CAP_SPLICE" \notin si[0].flags
    /\ ~buf["req"].pipe
    /\ "SI_FL_ERR" \notin si[0].flags
    /\ "CO_FL_ERROR" \notin conn[0]

\* the outcomes of a read event reporting input on s, from state m
ReadIn(m, s) ==
    sock_raw_read([m EXCEPT !.fdtab[s].ev = (@ \cap {"FD_POLL_HUP"}) \cup {"FD_POLL_IN"},
                            !.last = NoCall("read", s)], s)

\* a read event on the producer of b attempts a zero-copy read that needs a
\* pipe while the pool has none left
PoolExhaustedFor(b) ==
    /\ NeedsPipe(b)
    /\ buf[b].to_forward >= MIN_SPLICE_FORWARD
    /\ "BF_SHUTR" \notin buf[b].flags
    /\ "CO_FL_ERROR" \notin conn[prod(b)]
    /\ "FD_POLL_HUP" \notin fdtab[prod(b)].ev
    /\ fdtab[prod(b)].owner
    /\ pipes_used >= MaxPipes

\* C9 as stated: a read that finds the pool exhausted falls back to the copy
\* path and leaves BF_KERN_SPLICING and SI_FL_CAP_SPLICE as they were.
C9_NoFlagLeft ==
    \A b \in Buf :
        PoolExhaustedFor(b) =>
            \A m \in ReadIn(Cur, prod(b)) :
                /\ m.last.nopipe /\ m.last.copy
                /\ ("BF_KERN_SPLICING" \in m.buf[b].flags) = ("BF_KERN_SPLICING" \in buf[b].flags)
                /\ ("SI_FL_CAP_SPLICE" \in m.si[prod(b)].flags)
                       = ("SI_FL_CAP_SPLICE" \in si[prod(b)].flags)

\* C9, amended: a read that finds the pool exhausted takes no pipe, calls no
\* splice(), falls back to the copy path and leaves SI_FL_CAP_SPLICE as it
\* was, but clears BF_KERN_SPLICING from the buffer: the next read event goes
\* straight to the copy path, until the flag is set again from outside.
C9_ExhaustionClearsKernSplicing ==
    \A b \in Buf :
        PoolExhaustedFor(b) =>
            \A m \in ReadIn(Cur, prod(b)) :
                /\ m.last.nopipe /\ m.last.splice = -1 /\ m.last.copy
                /\ m.last.nsplice_in = 0
                /\ ~m.buf[b].pipe /\ m.pipes_used = pipes_used
                /\ "BF_KERN_SPLICING" \notin m.buf[b].flags
                /\ ("SI_FL_CAP_SPLICE" \in m.si[prod(b)].flags)
                       = ("SI_FL_CAP_SPLICE" \in si[prod(b)].flags)
                /\ \A m2 \in ReadIn(m, prod(b)) :
                       /\ m2.last.nsplice_in = 0
                       /\ ~m2.last.nopipe
                       /\ m2.last.splice = 2

\* a read event found the pool exhausted: the copy path has run, the
\* interface can still splice, the buffer is no longer eligible
C9_Witness ==
    /\ last.op = "read" /\ last.s = 0 /\ last.nopipe /\ last.copy
    /\ pipes_used >= MaxPipes
    /\ "BF_KERN_SPLICING" \notin buf["req"].flags
    /\ "SI_FL_CAP_SPLICE" \in si[0].flags
    /\ ~buf["req"].pipe

\* lines 90-96: sock_raw_splice_in is called for a buffer with bytes left
\* to forward and BF_KERN_SPLICING that is not empty, whether what it
\* holds is input or output
InputPending(b) ==
    /\ buf[b].to_forward # 0
    /\ "BF_KERN_SPLICING" \in buf[b].flags
    /\ buffer_not_empty(buf[b])

\* lines 237-254: a read event on the producer of b gets to the zero-copy
\* attempt
SpliceAttempted(b) ==
    /\ "CO_FL_ERROR" \notin conn[prod(b)]
    /\ "BF_SHUTR" \notin buf[b].flags
    /\ buf[b].to_forward >= MIN_SPLICE_FORWARD
    /\ "BF_KERN_SPLICING" \in buf[b].flags
    /\ "FD_POLL_HUP" \notin fdtab[prod(b)].ev

\* state m has the lengths and the pipe of buffer b as they are now
SameLengths(m, b) ==
    /\ m.buf[b].total = buf[b].total
    /\ m.buf[b].to_forward = buf[b].to_forward
    /\ m.buf[b].i = buf[b].i
    /\ m.buf[b].o = buf[b].o
    /\ m.buf[b].pipe = buf[b].pipe
    /\ m.buf[b].pipe_data = buf[b].pipe_data
    /\ m.pipes_used = pipes_used

\* the call that left m was refused: it took no pipe and read nothing, it
\* flagged the interface and stopped reading, it called the consumer's
\* chk_snd, and what waits in b changed by nothing but the bytes the
\* consumer's socket took: by nothing at all when b had no output to send
Refused(m, b) ==
    /\ m.last.nsplice_in = 0 /\ m.last.nrecv = 0
    /\ m.pipes_used <= pipes_used
    /\ m.buf[b].pipe => buf[b].pipe
    /\ m.buf[b].total = buf[b].total
    /\ m.buf[b].to_forward = buf[b].to_forward
    /\ m.buf[b].i = buf[b].i
    /\ m.buf[b].o + m.buf[b].pipe_data = buf[b].o + buf[b].pipe_data - m.last.taken
    /\ (buf[b].o = 0 /\ ~buf[b].pipe) => SameLengths(m, b)
    /\ "SI_FL_WAIT_ROOM" \in m.si[prod(b)].flags
    /\ m.fdtab[prod(b)].recv = "stop"
    /\ m.last.chk_snd

\* C10: a zero-copy read of an eligible buffer with bytes left to forward
\* and data already pending is refused: no pipe is taken, nothing is read
\* from the socket, total, to_forward and the pending lengths stay, the
\* interface gets SI_FL_WAIT_ROOM, read interest is stopped, the consumer's
\* chk_snd is called, and the read event returns without the copy path.
C10_RefusedWhenInputPending ==
    \A b \in Buf :
        InputPending(b) =>
            /\ \A r \in sock_raw_splice_in(Called("read", prod(b)), b, prod(b)) :
                   r.ret = 0 /\ Refused(r.m, b)
            /\ SpliceAttempted(b) =>
                   \A m \in ReadIn(Cur, prod(b)) :
                       /\ m.last.splice = 0 /\ ~m.last.copy
                       /\ m.last.read0 = "none"
                       /\ Refused(m, b)

\* a read event was refused: the pending input is still there, nothing was
\* spliced, the interface waits for room
C10_Witness ==
    /\ last.op = "read" /\ last.s = 0 /\ last.chk_snd /\ last.splice = 0 /\ ~last.copy
    /\ buf["req"].i > 0
    /\ ~buf["req"].pipe
    /\ "BF_KERN_SPLICING" \in buf["req"].flags
    /\ buf["req"].to_forward >= MIN_SPLICE_FORWARD
    /\ "SI_FL_WAIT_ROOM" \in si[0].flags
    /\ fdtab[0].recv = "stop"

\* the cumulative total of every buffer is the sum of the bytes the socket
\* reads into it returned
TotalIsAccepted == \A b \in Buf : buf[b].total = accepted[b]

\* the states the operations other than the read event can leave when called
\* on stream interface s: write event, shutdown, chk_rcv, chk_snd, update
NonReadOutcomes(s) ==
    sock_raw_write([Polled(s, {"FD_POLL_OUT"}) EXCEPT !.last = NoCall("write", s)], s)
    \cup sock_raw_chk_snd(Called("chk_snd", s), s)
    \cup {sock_raw_chk_rcv(Called("chk_rcv", s), s),
          sock_raw_data_finish(Called("data_finish", s), s),
          sock_raw_read0(Called("read", s), s)}

TotalLeftAlone ==
    \A s \in SI : \A m \in NonReadOutcomes(s) :
        \A b \in Buf : m.buf[b].total = buf[b].total /\ m.accepted[b] = accepted[b]

\* a step changes a total only by adding the bytes a socket read returned
TotalNeverDecreases ==
    \A b \in Buf :
        /\ buf'[b].total >= buf[b].total
        /\ buf'[b].total - buf[b].total = accepted'[b] - accepted[b]
        /\ buf'[b].total # buf[b].total => rcvd'[b] > rcvd[b]

\* C11: whatever the receive results of the read events so far (byte
\* counts, zero, would-block, errors; copy path and splice path), the total
\* of a buffer is the sum of the positive byte counts recv() and splice()
\* returned for it; it never decreases, and the write event, the shutdown,
\* chk_rcv, chk_snd and the update leave it as it is.
C11_TotalCountsAccepted ==
    /\ [](TotalIsAccepted /\ TotalLeftAlone)
    /\ [][TotalNeverDecreases]_vars

\* 10 bytes were spliced into the pipe and 4096 were received by the copy
\* path, all of them counted
C11_Witness ==
    /\ buf["req"].total = 4106
    /\ accepted["req"] = 4106
    /\ rcvd["req"] = 2
    /\ buf["req"].pipe_data = 10
    /\ buf["req"].o = 4086
    /\ buf["req"].i = 10
    /\ buf["req"].to_forward = 0

\* the layout of buffer B: lengths within the capacity, also with the space
\* bi_avail() reports as free, and pointer within the region
WithinCapacity(B) ==
    /\ B.i >= 0 /\ B.o >= 0
    /\ B.i + B.o <= B.size
    /\ bi_avail(B, Cur.global) + B.i + B.o <= B.size
    /\ B.p >= 0 /\ B.p < B.size

\* C12: pending input plus pending output of a buffer never exceed its
\* size: every block the copy read path asks recv() for fits in the free
\* space and ends at the physical end of the region at the latest, also when
\* the free space wraps, and the write path sends no more than the pending
\* output, which never goes below zero.
C12_WithinCapacity ==
    \A b \in Buf :
        /\ WithinCapacity(buf[b])
        /\ read_max(buf[b], Cur.global) > 0 =>
               RequestFits(buf[b], read_max(buf[b], Cur.global))
        /\ fits[b]
        /\ \A r \in sock_raw_write_loop(Called("write", cons(b)), cons(b), b) :
               /\ WithinCapacity(r.m.buf[b])
               /\ r.m.buf[b].o <= buf[b].o
               /\ r.m.buf[b].i = buf[b].i

\* the free space wraps: pending output sits in the middle of the region
\* after a receive and a partial send, more room is free in all than up to
\* the end of the region, and the next recv() is asked for the latter
C12_Witness ==
    LET B == buf["req"]
    IN  /\ B.o > 0 /\ B.o < B.p
        /\ B.p + B.i < B.size
        /\ "BF_WRITE_PARTIAL" \in B.flags
        /\ bi_avail(B, Cur.global) > B.size - (B.p + B.i)
        /\ read_max(B, Cur.global) = B.size - (B.p + B.i)
        /\ rcvd["req"] < MaxRecv
        /\ fits["req"]

Min(x, y) == IF x < y THEN x ELSE y

\* read outcome m spent the budget of buffer b as follows: the bytes spliced
\* in full, then cspent of the bytes copied, which became pending output
\* while the other bytes copied stay pending input
BudgetSpent(m, b, cspent) ==
    LET B  == buf[b]
        tf == B.to_forward
    IN  /\ m.buf[b].to_forward >= 0
        /\ m.buf[b].to_forward <= tf
        /\ tf = BUF_INFINITE_FORWARD => m.buf[b].to_forward = BUF_INFINITE_FORWARD
        /\ tf # BUF_INFINITE_FORWARD =>
               /\ m.last.spliced <= tf
               /\ m.buf[b].to_forward = tf - m.last.spliced - cspent
        /\ m.last.copied > 0 =>
               /\ m.buf[b].o = B.o + cspent
               /\ m.buf[b].i = B.i + m.last.copied - cspent

\* no operation but the read event touches a budget
BudgetLeftAlone ==
    \A s \in SI : \A m \in NonReadOutcomes(s) :
        \A b \in Buf : m.buf[b].to_forward = buf[b].to_forward

\* a step never raises a budget nor takes it below zero, and leaves an
\* infinite one infinite
BudgetNeverIncreases ==
    \A b \in Buf :
        /\ buf'[b].to_forward <= buf[b].to_forward
        /\ buf'[b].to_forward >= 0
        /\ buf[b].to_forward = BUF_INFINITE_FORWARD =>
               buf'[b].to_forward = BUF_INFINITE_FORWARD

\* C13 as stated: every copy receive spends min(bytes received, to_forward)
\* of a finite budget and promotes that many bytes to pending output.
C13_EveryReceiveSpends ==
    \A b \in Buf : \A m \in ReadIn(Cur, prod(b)) :
        BudgetSpent(m, b, Min(m.last.copied,
                              IF buf[b].to_forward = BUF_INFINITE_FORWARD
                              THEN m.last.copied
                              ELSE buf[b].to_forward - m.last.spliced))

\* C13, amended: to_forward never increases and never goes below zero, an
\* infinite one never changes, only the read event changes a finite one:
\* each splice() takes off the bytes it moved, at most to_forward, and each
\* recv() takes off min(bytes received, to_forward) and promotes that many
\* bytes to pending output, unless BF_SHUTW or BF_SHUTW_NOW is set on the
\* buffer: then recv() leaves to_forward alone and promotes nothing.
C13_BudgetOnlySpent ==
    /\ [](/\ BudgetLeftAlone
          /\ \A b \in Buf : \A m \in ReadIn(Cur, prod(b)) :
                 BudgetSpent(m, b,
                     IF buf[b].flags \cap {"BF_SHUTW", "BF_SHUTW_NOW"} # {} THEN 0
                     ELSE Min(m.last.copied,
                              IF buf[b].to_forward = BUF_INFINITE_FORWARD
                              THEN m.last.copied
                              ELSE buf[b].to_forward - m.last.spliced)))
    /\ [][BudgetNeverIncreases]_vars

\* bytes were received by the copy path while the output was asked to shut:
\* they all stay pending input and the finite budget is as it was
C13_Witness ==
    /\ "BF_SHUTW_NOW" \in buf["req"].flags
    /\ buf["req"].to_forward = MIN_SPLICE_FORWARD
    /\ buf["req"].i = 4096
    /\ buf["req"].o = 0
    /\ accepted["req"] = 4096

\* the last n of the read events q all left the buffer full of bytes read
\* in that one call
FilledInARow(q, n) ==
    /\ Len(q) >= n
    /\ \A k \in 1..Len(q) : k > Len(q) - n => q[k].filled

\* a step that sets BF_STREAMER_FAST ends the third of three such read events
FastSetByThirdFill ==
    \A b \in Buf :
        "BF_STREAMER_FAST" \notin buf[b].flags /\ "BF_STREAMER_FAST" \in buf'[b].flags =>
            FilledInARow(passes'[b], 3)

\* C14: BF_STREAMER_FAST is set only at the end of a read event that filled
\* the buffer in that one call and is the third of 3 consecutive such read
\* events on this buffer: a read event in between that did not fill the
\* buffer in one call (a short read, a would-block) restarts the count.
C14_FastAfterThreeFillsInARow == [][FastSetByThirdFill]_vars

STREAMERS == {"BF_STREAMER", "BF_STREAMER_FAST"}

\* buffer b is classified, and read outcome m made one receive that
\* returned bytes: fewer than asked for, and at most half the buffer
ShortReceive(m, b) ==
    /\ buf[b].flags \cap STREAMERS # {}
    /\ m.rcvd[b] = rcvd[b] + 1
    /\ m.last.copied < read_max(buf[b], Cur.global)
    /\ m.last.copied <= buf[b].size \div 2

\* the same, the receive having left the buffer full
FullingReceive(m, b) ==
    /\ buf[b].flags \cap STREAMERS # {}
    /\ m.rcvd[b] = rcvd[b] + 1
    /\ bi_full(m.buf[b], Cur.global)
    /\ m.last.copied <= buf[b].size \div 2
    /\ "BF_STREAMER_FAST" \in buf[b].flags \/ ~m.last.filled

\* the counters of b after outcome m: one more small transfer, no large one
SmallCounted(m, b) ==
    /\ m.buf[b].xfer_small = buf[b].xfer_small + 1
    /\ m.buf[b].xfer_large = 0

\* C15 as stated: every short receive into a classified buffer counts as a
\* small transfer; at 2 of them BF_STREAMER_FAST is cleared, at 3 both flags.
C15_ShortReceiveDemotesAtTwo ==
    \A b \in Buf : \A m \in ReadIn(Cur, prod(b)) :
        ShortReceive(m, b) =>
            /\ SmallCounted(m, b)
            /\ m.buf[b].xfer_small >= 2 => "BF_STREAMER_FAST" \notin m.buf[b].flags
            /\ m.buf[b].xfer_small >= 3 => m.buf[b].flags \cap STREAMERS = {}

\* C15, amended: every short receive into a classified buffer (fewer bytes
\* than asked for, at most half the buffer read) counts as a small transfer
\* and resets the large ones; it clears both flags when the count reaches 3
\* and leaves them as they are below 3.  BF_STREAMER_FAST alone is cleared
\* at a count of 2 or more by a receive that leaves the buffer full with at
\* most half of it read in the call, which keeps BF_STREAMER.
C15_ShortReceiveCounts ==
    \A b \in Buf : \A m \in ReadIn(Cur, prod(b)) :
        /\ ShortReceive(m, b) =>
               /\ SmallCounted(m, b)
               /\ m.buf[b].flags \cap STREAMERS =
                      IF m.buf[b].xfer_small >= 3 THEN {} ELSE buf[b].flags \cap STREAMERS
        /\ FullingReceive(m, b) =>
               /\ SmallCounted(m, b)
               /\ m.buf[b].flags \cap STREAMERS =
                      IF m.buf[b].xfer_small >= 2
                      THEN (buf[b].flags \cap STREAMERS) \ {"BF_STREAMER_FAST"}
                      ELSE buf[b].flags \cap STREAMERS

\* three short receives in a row declassified a fast streamer
C15_Witness ==
    /\ buf["req"].xfer_small = 3
    /\ buf["req"].xfer_large = 0
    /\ buf["req"].flags \cap STREAMERS = {}
    /\ rcvd["req"] = 6
    /\ accepted["req"] = 3 * buf["req"].size + 3 * 4096

\* the last n read events of history q each found the buffer empty and
\* received `amount` bytes in a single receive call
SingleReceives(q, n, amount) ==
    /\ Len(q) >= n
    /\ \A k \in 1..Len(q) :
           k > Len(q) - n => q[k].empty /\ q[k].chunks = 1 /\ q[k].got = amount

\* every byte received so far was forwarded when it arrived
AllForwarded(b) == buf[b].i = 0 /\ buf[b].to_forward = BUF_INFINITE_FORWARD

\* C16 as stated: a buffer of 16384 bytes that on three consecutive read
\* events starts empty and receives 4096 bytes in one receive call, the
\* bytes being forwarded at once, is BF_STREAMER_FAST after the third.
C16_FastAfterThreeBlocks ==
    \A b \in Buf :
        buf[b].size = 16384 /\ AllForwarded(b) /\ SingleReceives(passes[b], 3, 4096) =>
            "BF_STREAMER_FAST" \in buf[b].flags

\* C16, amended: a buffer that on three consecutive read events starts
\* empty and receives its whole capacity (16384 bytes for a buffer of
\* 16384) in one receive call, the bytes being forwarded at once, is
\* BF_STREAMER_FAST after the third.
C16_FastAfterThreeFills ==
    \A b \in Buf :
        AllForwarded(b) /\ SingleReceives(passes[b], 3, buf[b].size) =>
            "BF_STREAMER_FAST" \in buf[b].flags

\* the third fill has just classified the request buffer
C16_Witness ==
    /\ SingleReceives(passes["req"], 3, buf["req"].size)
    /\ AllForwarded("req")
    /\ buf["req"].flags \cap STREAMERS = STREAMERS
    /\ buf["req"].xfer_large = 3
    /\ buf["req"].total = 3 * buf["req"].size
    /\ buf["req"].o = buf["req"].size

\* the copy write path of s is about to ask send() for its 1000 bytes of
\* pending output in one block
SendsBlock(s) ==
    /\ ~buf[ob(s)].pipe
    /\ buf[ob(s)].o = 1000
    /\ buf[ob(s)].o <= buf[ob(s)].p

\* outcome m of a call on s left 600 of them: the socket took 400
Took400(m, s) == m.buf[ob(s)].o = 600

ONESHOT == {"BF_EXPECT_MORE", "BF_SEND_DONTWAIT"}

\* what such a call does whichever way BF_FULL goes: 600 bytes left,
\* BF_OUT_EMPTY not set, the one-shot flags kept, one send() only
PartialSendKeeps(m, s) ==
    /\ "BF_OUT_EMPTY" \notin m.buf[ob(s)].flags
    /\ m.buf[ob(s)].flags \cap ONESHOT = buf[ob(s)].flags \cap ONESHOT
    /\ m.last.nsend = 1
    /\ m.last.nsplice_out = 0

\* the outcomes of a write event on s, and of a call of .chk_snd, where
\* the socket took 400 bytes
WriteTook400(s) ==
    IF fdtab[s].owner /\ fdtab[s].send # "stop"
    THEN {m \in sock_raw_write([Polled(s, {"FD_POLL_OUT"})
                                    EXCEPT !.last = NoCall("write", s)], s) : Took400(m, s)}
    ELSE {}
ChkSndTook400(s) ==
    {m \in sock_raw_chk_snd(Called("chk_snd", s), s) : Took400(m, s)}

\* write interest in the descriptor of s is registered in outcome m
Registered(m, s) == m.fdtab[s].send = "want"

FullKept(m, s) == "BF_FULL" \in buf[ob(s)].flags => "BF_FULL" \in m.buf[ob(s)].flags

FullWhileFull(m, s) ==
    "BF_FULL" \in m.buf[ob(s)].flags <=>
        "BF_FULL" \in buf[ob(s)].flags /\ bi_full(m.buf[ob(s)], Cur.global)

\* C17 as stated: when the copy write path asks send() for 1000 bytes of
\* pending output and the socket takes 400, 600 bytes stay pending,
\* BF_OUT_EMPTY is not set, BF_FULL, BF_EXPECT_MORE and BF_SEND_DONTWAIT
\* are not cleared, no other send() is made, the loop returns 0 and write
\* interest is registered.
C17_PartialSendClearsNothing ==
    \A s \in SI :
        SendsBlock(s) =>
            /\ \A r \in sock_raw_write_loop(Called("write", s), s, ob(s)) :
                   Took400(r.m, s) =>
                       PartialSendKeeps(r.m, s) /\ FullKept(r.m, s) /\ r.ret = 0
            /\ \A m \in WriteTook400(s) \cup ChkSndTook400(s) :
                   PartialSendKeeps(m, s) /\ FullKept(m, s) /\ Registered(m, s)

\* C17, amended: in that case 600 bytes stay pending, BF_OUT_EMPTY is not
\* set, BF_EXPECT_MORE and BF_SEND_DONTWAIT are not cleared, no other
\* send() is made and the loop returns 0; BF_FULL is cleared as soon as the
\* buffer is not full any more after the 400 bytes left, and kept
\* otherwise.  The loop itself leaves the registration as it is: write
\* interest stays registered after a write event and is registered by
\* .chk_snd.
C17_PartialSendStops ==
    \A s \in SI :
        SendsBlock(s) =>
            /\ \A r \in sock_raw_write_loop(Called("write", s), s, ob(s)) :
                   Took400(r.m, s) =>
                       /\ PartialSendKeeps(r.m, s) /\ FullWhileFull(r.m, s)
                       /\ r.ret = 0
                       /\ r.m.fdtab = fdtab
            /\ \A m \in WriteTook400(s) : m.last.wret = 0
            /\ \A m \in WriteTook400(s) \cup ChkSndTook400(s) :
                   PartialSendKeeps(m, s) /\ FullWhileFull(m, s) /\ Registered(m, s)

\* the server took 400 of the 1000 bytes of a buffer that was full
C17_Witness ==
    /\ buf["req"].o = 600
    /\ buf["req"].i = buf["req"].size - 1000
    /\ accepted["req"] = buf["req"].size
    /\ "BF_FULL" \notin buf["req"].flags
    /\ ONESHOT \subseteq buf["req"].flags
    /\ "BF_OUT_EMPTY" \notin buf["req"].flags
    /\ fdtab[1].send = "want"

\* m has the connection of s flagged and both its interests cancelled
Errored(m, s) ==
    /\ "CO_FL_ERROR" \in m.conn[s]
    /\ m.fdtab[s].recv = "stop"
    /\ m.fdtab[s].send = "stop"

\* the call that left m met a fatal error: a socket call of its own failed
\* with another error than EAGAIN or ENOSYS, or the connection was flagged
Failed(m, s) == s \in m.last.fatal \/ "CO_FL_ERROR" \in conn[s]

\* .chk_snd on s met a fatal error of its own and did what lines 819-828 and
\* 884-886 do
ChkSndErrored(m, s) ==
    /\ Errored(m, s)
    /\ "SI_FL_ERR" \in m.si[s].flags
    /\ m.last.wake <=> ("SI_FL_DONT_WAKE" \notin si[s].flags /\ si[s].owner)

\* C18 as stated: on a fatal error (a failing recv, send or splice, or a
\* connection already flagged) the read event, the write event and .chk_snd
\* flag the connection, cancel both interests and wake the owning task.
C18_ErrorStopsAndWakes ==
    \A s \in SI :
        \A m \in ReadEvent(s) \cup WriteEvent(s) \cup sock_raw_chk_snd(Called("chk_snd", s), s) :
            Failed(m, s) => Errored(m, s) /\ m.last.wake

\* C18, amended: on such an error the read event and the write event flag
\* the connection and cancel both interests, and do not wake the task
\* themselves; .chk_snd, when a send or splice of its own fails (called by
\* the session, or by a read event on the other interface that refuses to
\* splice), flags the connection, cancels both interests, sets SI_FL_ERR
\* and wakes the task unless SI_FL_DONT_WAKE is set or the interface has no
\* owner.
C18_ErrorStops ==
    \A s \in SI :
        /\ \A m \in ReadEvent(s) \cup WriteEvent(s) :
               /\ Failed(m, s) => Errored(m, s) /\ (m.last.wake => m.last.chk_snd)
               /\ m.last.chk_snd /\ (1 - s) \in m.last.fatal => ChkSndErrored(m, 1 - s)
        /\ \A m \in sock_raw_chk_snd(Called("chk_snd", s), s) :
               s \in m.last.fatal => ChkSndErrored(m, s)

\* a send failed in .chk_snd on interface 1 after a receive had failed on
\* interface 0
C18_Witness ==
    /\ "CO_FL_ERROR" \in conn[0] /\ "CO_FL_ERROR" \in conn[1]
    /\ "SI_FL_ERR" \in si[1].flags
    /\ \A s \in SI : fdtab[s].recv = "stop" /\ fdtab[s].send = "stop"
    /\ "SI_FL_DONT_WAKE" \notin si[1].flags
    /\ buf["req"].o > 0

\* the call that left m made no recv(), send() or splice()
NoSocketCall(m) ==
    m.last.nrecv + m.last.nsend + m.last.nsplice_in + m.last.nsplice_out = 0

\* the flags that close the read side and the write side of s for a call
ReadClosed(s) == "CO_FL_ERROR" \in conn[s] \/ "BF_SHUTR" \in buf[ib(s)].flags
WriteClosed(s) == "CO_FL_ERROR" \in conn[s] \/ "BF_SHUTW" \in buf[ob(s)].flags

\* the read event and the write event honour them
EventsHonourClosed ==
    \A s \in SI :
        /\ ReadClosed(s) => \A m \in ReadEvent(s) : NoSocketCall(m)
        /\ WriteClosed(s) => \A m \in WriteEvent(s) : NoSocketCall(m)

\* and so does .chk_snd
ChkSndHonoursClosed ==
    \A s \in SI :
        WriteClosed(s) => \A m \in sock_raw_chk_snd(Called("chk_snd", s), s) : NoSocketCall(m)

\* C19: once CO_FL_ERROR is set on the connection, or BF_SHUTR on the input
\* buffer (BF_SHUTW on the output buffer), every later read event (write
\* event, call of .chk_snd) makes no recv(), send() or splice().
C19_ClosedMeansNoIO == EventsHonourClosed /\ ChkSndHonoursClosed

\* outcome m leaves output to send for s, no error and no write shutdown
Unsent(m, s) ==
    /\ m.buf[ob(s)].o > 0 \/ m.buf[ob(s)].pipe_data > 0
    /\ "CO_FL_ERROR" \notin m.conn[s]
    /\ "BF_SHUTW" \notin m.buf[ob(s)].flags

\* a write event, and .chk_snd followed by .update, leave write interest
\* registered when they leave output unsent
UnsentIsRegistered ==
    \A s \in SI :
        /\ \A m \in WriteEvent(s) : Unsent(m, s) => Registered(m, s)
        /\ \A m \in sock_raw_chk_snd(Called("chk_snd", s), s) :
               m.si[s].state = "SI_ST_EST" /\ Unsent(m, s) =>
                   Registered(sock_raw_data_finish(m, s), s)

\* the bytes buffer b and its pipe hold in outcome m
Held(m, b) == m.buf[b].i + m.buf[b].o + m.buf[b].pipe_data

\* no call discards a byte: what a buffer holds afterwards is what it held,
\* plus what the call received, minus what the socket took in the call
NothingDiscarded ==
    \A s \in SI :
        \A m \in ReadEvent(s) \cup WriteEvent(s) \cup sock_raw_chk_snd(Called("chk_snd", s), s)
                 \cup {sock_raw_data_finish(Called("data_finish", s), s)} :
            \A b \in Buf :
                Held(m, b) = Held(Cur, b) + (m.accepted[b] - accepted[b])
                             - (IF b = "req" THEN m.last.taken ELSE 0)

\* while s is draining, a write event in which the socket takes bytes can
\* happen
ProgressPossible ==
    \A s \in SI :
        Draining(s) =>
            \E m \in WriteEvent(s) : m.last.taken > 0

\* nothing is left to send and BF_OUT_EMPTY says so, or s gave up
Drained(s) ==
    \/ ~Pending(s) /\ "BF_OUT_EMPTY" \in buf[ob(s)].flags
    \/ "CO_FL_ERROR" \in conn[s]
    \/ "BF_SHUTW" \in buf[ob(s)].flags

\* C20: a write event, or .chk_snd followed by .update, that ends with
\* output left in the pipe or the buffer and with neither an error nor a
\* write shutdown, leaves write interest registered; and when write events
\* keep coming and the socket ends up taking bytes, all that output is
\* sent (no call discards a byte) and BF_OUT_EMPTY is set, unless an error
\* or a write shutdown comes first.
C20_UnsentOutputIsSent ==
    /\ [](UnsentIsRegistered /\ NothingDiscarded /\ ProgressPossible)
    /\ \A s \in {1} : Draining(s) ~> Drained(s)

\* both the pipe and the buffer were emptied by write events
C20_Witness ==
    /\ ~Pending(1)
    /\ "BF_OUT_EMPTY" \in buf["req"].flags
    /\ accepted["req"] > 0
    /\ ~buf["req"].pipe
    /\ rcvd["req"] = MaxRecv
    /\ buf["req"].flags \cap {"BF_SHUTW", "BF_SHUTW_NOW"} = {}
    /\ conn[1] = {}
    /\ fdtab[1].send = "want"

(***************************************************************************)
(* Timeouts.                                                               *)
(***************************************************************************)
\* the read and write expiration dates of both buffers are in m what they
\* are now
TimersKept(m) ==
    \A b \in Buf : m.buf[b].rex = buf[b].rex /\ m.buf[b].wex = buf[b].wex

\* .chk_rcv changes no expiration date
ChkRcvKeepsTimers ==
    \A s \in SI : TimersKept(sock_raw_chk_rcv(Called("chk_rcv", s), s))

\* .chk_snd changes no expiration date
ChkSndKeepsTimers ==
    \A m \in sock_raw_chk_snd(Called("chk_snd", 1), 1) : TimersKept(m)

\* C21: neither sock_raw_chk_rcv nor sock_raw_chk_snd changes the read or
\* the write expiration date (rex, wex) of either buffer, on any path.
C21_NotifyLeavesTimers == ChkRcvKeepsTimers /\ ChkSndKeepsTimers

\* the expiration date t is not moved to a later tick by a call that leaves
\* u: unset before, or cleared, or not after t
NotPostponed(t, u) == tick_isset(t) => (~tick_isset(u) \/ u <= t)

\* C22: sock_raw_data_finish never moves a read or write expiration date
\* that is set to a later tick: it clears it, or sets it only when it was
\* unset, so that calling it again and again cannot postpone a running
\* timer.
C22_UpdateNeverPostpones ==
    \A s \in {1} :
        si[s].state = "SI_ST_EST" =>
            LET m == sock_raw_data_finish(Called("data_finish", s), s)
            IN  /\ NotPostponed(buf[ib(s)].rex, m.buf[ib(s)].rex)
                /\ NotPostponed(buf[ob(s)].wex, m.buf[ob(s)].wex)

\* the read expiration date of the input buffer of s once write activity
\* on s has been accounted at tick now, when it was rex before: refreshed
\* when it is set and the timeouts are not independent, left alone otherwise
ReadRefreshed(s, rex, now) ==
    IF tick_isset(rex) /\ "SI_FL_INDEP_STR" \notin si[s].flags
    THEN tick_add_ifset(now, buf[ib(s)].rto)
    ELSE rex

\* m is left by a .chk_snd on s that called sock_raw_write_loop without
\* error and without shutting the write side, so that it went on to the
\* timeouts
WroteThrough(m, s) ==
    /\ m.last.wret = 0
    /\ "BF_SHUTW" \notin m.buf[ob(s)].flags

\* the write expiration date is refreshed at line 863: a partial write is
\* flagged and output remains
WexRefreshed(F) ==
    F \cap {"BF_OUT_EMPTY", "BF_SHUTW", "BF_WRITE_PARTIAL"} = {"BF_WRITE_PARTIAL"}

\* .chk_snd: the write expiration date is refreshed when data remain after
\* a partial write, and after write activity the read one is as above;
\* without write activity it is left alone
ChkSndCouplesTimers ==
    \A s \in {1} : \A m \in sock_raw_chk_snd(Called("chk_snd", s), s) :
        LET F == m.buf[ob(s)].flags
        IN  WroteThrough(m, s) =>
                /\ WexRefreshed(F) =>
                        m.buf[ob(s)].wex = tick_add_ifset(now_ms, buf[ob(s)].wto)
                /\ m.buf[ib(s)].rex = IF F \cap BF_WRITE_ACTIVITY # {}
                                      THEN ReadRefreshed(s, buf[ib(s)].rex, now_ms)
                                      ELSE buf[ib(s)].rex

\* .update: when it arms the write timeout because output is waiting, the
\* read expiration date its read half left is refreshed as above, and it
\* is what the read half left in every other case
UpdateCouplesTimers ==
    \A s \in {1} :
        si[s].state = "SI_ST_EST" =>
            LET m0  == Called("data_finish", s)
                mid == data_finish_read(m0, s)
                m   == sock_raw_data_finish(m0, s)
                F   == buf[ob(s)].flags
            IN  IF F \cap {"BF_SHUTW", "BF_OUT_EMPTY"} = {} /\ ~tick_isset(buf[ob(s)].wex)
                THEN /\ m.buf[ob(s)].wex = tick_add_ifset(now_ms, buf[ob(s)].wto)
                     /\ m.buf[ib(s)].rex = ReadRefreshed(s, mid.buf[ib(s)].rex, now_ms)
                ELSE m.buf[ib(s)].rex = mid.buf[ib(s)].rex

\* C23: when the write expiration date is refreshed because of write
\* activity, by .chk_snd or by .update, the read expiration date of the
\* input buffer of the same interface is refreshed too if and only if it
\* is set and SI_FL_INDEP_STR is not; with SI_FL_INDEP_STR, or with the
\* read expiration date unset, write activity leaves it unchanged.
C23_WriteActivityRefreshesRead == ChkSndCouplesTimers /\ UpdateCouplesTimers

\* .chk_snd sends part of the output one tick or more after the read
\* timeout was armed: without independent timeouts both expiration dates
\* are moved to two ticks from now
C23_Witness ==
    /\ now_ms > 1
    /\ "SI_FL_INDEP_STR" \notin si[1].flags
    /\ buf["rep"].rex = 3
    /\ \E m \in sock_raw_chk_snd(Called("chk_snd", 1), 1) :
           /\ WroteThrough(m, 1)
           /\ m.last.taken > 0
           /\ m.buf["req"].o > 0
           /\ m.buf["req"].wex = now_ms + 2
           /\ m.buf["rep"].rex = now_ms + 2

(***************************************************************************)
(* Loops.                                                                  *)
(***************************************************************************)
RECURSIVE SumTo(_, _)
\* the sum of the first n elements of the sequence q
SumTo(q, n) == IF n = 0 THEN 0 ELSE SumTo(q, n - 1) + q[n]

\* the calls of sock_raw_write_loop: a write event, .chk_snd, and the
\* .chk_snd a read event makes for the other interface
WriteLoopCalls == WriteLoopsOf(1)

\* recv() is called at most MAX_READ_POLL_LOOPS times by a read event
ReadLoopBounded ==
    \A m \in ReadEvent(0) : m.last.nrecv <= MAX_READ_POLL_LOOPS

\* send() is called at most MAX_WRITE_POLL_LOOPS times and splice() from
\* the pipe at most once by a call of the write loop
WriteLoopBounded ==
    \A m \in WriteLoopCalls :
        /\ m.last.nsend <= MAX_WRITE_POLL_LOOPS
        /\ m.last.nsplice_out <= 1

\* the i-th successful splice() to the pipe of a read event that moved the
\* byte counts q reached a threshold: it returned recv_enough bytes, or
\* left SPLICE_FULL_HINT bytes in the pipe
ReadEnough(q, i) ==
    \/ q[i] >= TuneRecvEnough
    \/ buf["req"].pipe_data + SumTo(q, i) >= SPLICE_FULL_HINT

\* no splice() to the pipe of a read event but its last successful one
\* reached a threshold, and when that one did, it was the last call of
\* splice() of the read event
SpliceLoopStops ==
    \A m \in ReadEvent(0) :
        LET q == m.last.moved
        IN  /\ \A i \in 1..(Len(q) - 1) : ~ReadEnough(q, i)
            /\ (q # <<>> /\ ReadEnough(q, Len(q))) => m.last.nsplice_in = Len(q)

\* C24: a read event and a call of the write loop end after a bounded
\* number of socket calls whatever the sockets return: at most
\* MAX_READ_POLL_LOOPS receives by the copy read loop, at most
\* MAX_WRITE_POLL_LOOPS sends by the copy write loop, at most one move
\* from the pipe to the socket, and no move to the pipe once the pipe
\* holds SPLICE_FULL_HINT bytes or a move returned recv_enough bytes.
C24_LoopsAreBounded == ReadLoopBounded /\ WriteLoopBounded /\ SpliceLoopStops

\* a read event that copies makes MAX_READ_POLL_LOOPS receives of 4000
\* bytes and stops although the buffer has room and the client has more
\* to send
CopyLoopCut ==
    \E m \in ReadEvent(0) :
        /\ m.last.nrecv = MAX_READ_POLL_LOOPS
        /\ m.last.copied = MAX_READ_POLL_LOOPS * 4000
        /\ m.rcvd["req"] < peer.chunks
        /\ ~bi_full(m.buf["req"], m.global)

\* a read event that splices stops at the move that brings the pipe to
\* SPLICE_FULL_HINT, each move being under recv_enough, although the
\* client has more to send and the amount to forward is not exhausted
SpliceLoopCutFull ==
    \E m \in ReadEvent(0) :
        /\ Len(m.last.moved) > 1
        /\ \A i \in 1..Len(m.last.moved) : m.last.moved[i] = 4000
        /\ m.last.nsplice_in = Len(m.last.moved)
        /\ m.buf["req"].pipe_data = 24000
        /\ m.buf["req"].to_forward # 0
        /\ m.rcvd["req"] < peer.chunks

\* a read event that splices stops at a move of recv_enough bytes or more,
\* with the pipe far from full, more to come and more to forward
SpliceLoopCutEnough ==
    \E m \in ReadEvent(0) :
        /\ m.last.moved = <<5000>>
        /\ m.last.nsplice_in = 1
        /\ m.buf["req"].pipe_data < SPLICE_FULL_HINT
        /\ m.buf["req"].to_forward # 0
        /\ m.rcvd["req"] < peer.chunks

\* after a first block has come, each loop of the read event can be cut by
\* its own limit
C24_Witness ==
    /\ rcvd["req"] = 1
    /\ buffer_empty(buf["req"])
    /\ CopyLoopCut
    /\ SpliceLoopCutFull

====
